---- MODULE Spec2Model ----
(***************************************************************************)
(* A model of the Ring Fit Adventure tracker: the skills table and the     *)
(* workouts table of the SQLite database, the Skill accessors, the workout *)
(* log functions and the menu handlers that call them.                     *)
(*                                                                         *)
(* Text is a sequence of atoms.  An atom is one character ("1", ",", "+")  *)
(* or, for alphabetic words that the code only compares as a whole, the    *)
(* whole word ("abc", "#Chest").                                           *)
(***************************************************************************)
EXTENDS Integers, Sequences, FiniteSets, TLC

VARIABLES
    db_skills,      \* table skills, in rowid order
    db_workouts,    \* table workouts, in rowid order
    now,            \* the local clock, in seconds
    skills,         \* RingFitApp.skills
    input_reps,     \* RingFitApp.input_reps
    menu,           \* RingFitApp.menu
    language,       \* RingFitApp.language
    settings,       \* the contents of ./settings/settings.json
    panicked,       \* the process has panicked
    db_translations,\* table translations
    skill_names,    \* RingFitApp.skill_names
    hashtag_names,  \* RingFitApp.hashtag_names
    menu_names,     \* RingFitApp.menu_names
    files,          \* which of ./settings/settings.json and ./db/database.db exist
    call,           \* the operation taken last, with its arguments and result
    appended        \* history: the arguments of every successful append, in order

vars == <<db_skills, db_workouts, now, skills, input_reps, menu, language, settings, panicked,
          db_translations, skill_names, hashtag_names, menu_names, files, appended, call>>

(***************************************************************************)
(* Bounds of the model.                                                    *)
(***************************************************************************)
\* usize and isize are UsizeBits wide (64 on the target); SQLite's INTEGER
\* is a signed integer of the same width.
UsizeBits == 14
\* most workouts the application is let to confirm
MaxWorkouts == 1
\* most rows the library-level specification lets the workouts table grow to
MaxRows == 3
\* the clock runs from 0 to MaxTime
MaxTime == 1
\* the library-level specification stops incrementing a counter above this
MaxCompleted == 2

UsizeMax == 2^UsizeBits - 1
IsizeMax == 2^(UsizeBits - 1) - 1
IsizeMin == 0 - 2^(UsizeBits - 1)
I64Max == IsizeMax

Min(a, b) == IF a <= b THEN a ELSE b
Max(a, b) == IF a >= b THEN a ELSE b

(***************************************************************************)
(* Text and numbers.                                                       *)
(***************************************************************************)
Digits == <<"0", "1", "2", "3", "4", "5", "6", "7", "8", "9">>

IsDigit(ch) == \E d \in 1..10 : Digits[d] = ch

DigitVal(ch) == (CHOOSE d \in 1..10 : Digits[d] = ch) - 1

ParseErr == [ok |-> FALSE, val |-> 0]

\* The digit loop of str::parse::<usize>: a non-digit is an error, and so is
\* a value that does not fit in usize.
RECURSIVE parse_digits(_, _)
parse_digits(digits, acc) ==
    IF digits = <<>> THEN [ok |-> TRUE, val |-> acc]
    ELSE IF ~IsDigit(Head(digits)) THEN ParseErr
    ELSE LET v == acc * 10 + DigitVal(Head(digits))
         IN  IF v > UsizeMax THEN ParseErr ELSE parse_digits(Tail(digits), v)

\* str::parse::<usize>: empty text is an error, one leading "+" is accepted,
\* a "-" is not (the type is unsigned), a lone sign is an error.
parse_usize(src) ==
    IF src = <<>> THEN ParseErr
    ELSE IF Len(src) = 1 /\ Head(src) \in {"+", "-"} THEN ParseErr
    ELSE IF Head(src) = "+" THEN parse_digits(Tail(src), 0)
    ELSE parse_digits(src, 0)

\* reps.parse::<usize>().unwrap_or(0)
parse_unwrap_or_0(src) == parse_usize(src).val

\* usize::to_string: decimal, no sign, no leading zero
RECURSIVE usize_to_string(_)
usize_to_string(n) ==
    IF n < 10 THEN <<Digits[n + 1]>>
    ELSE Append(usize_to_string(n \div 10), Digits[(n % 10) + 1])

RECURSIVE Concat(_)
Concat(ss) == IF ss = <<>> THEN <<>> ELSE Head(ss) \o Concat(Tail(ss))

Reverse(s) == [i \in 1..Len(s) |-> s[Len(s) + 1 - i]]

(***************************************************************************)
(* The enums and their conversions.                                        *)
(***************************************************************************)
SkillTypes == {"SkillTypes::Arms", "SkillTypes::Core", "SkillTypes::Legs", "SkillTypes::Yoga"}

SkillHits == {"SkillHits::One", "SkillHits::Three", "SkillHits::Five", "SkillHits::Heal"}

get_all_hashtags ==
    << "SkillHashtags::Empty", "SkillHashtags::Chest", "SkillHashtags::UpperArms",
       "SkillHashtags::Shoulders", "SkillHashtags::Trapezius", "SkillHashtags::Core",
       "SkillHashtags::Posture", "SkillHashtags::Legs", "SkillHashtags::Glutes",
       "SkillHashtags::LowerBody", "SkillHashtags::Abs", "SkillHashtags::Waist",
       "SkillHashtags::Stamina", "SkillHashtags::Back", "SkillHashtags::Flexibility",
       "SkillHashtags::Aerobic" >>

SkillHashtags == {get_all_hashtags[i] : i \in 1..Len(get_all_hashtags)}

\* Display for SkillTypes: the variant's name
SkillTypes_to_string(t) ==
    CASE t = "SkillTypes::Arms" -> "Arms"
      [] t = "SkillTypes::Core" -> "Core"
      [] t = "SkillTypes::Legs" -> "Legs"
      [] t = "SkillTypes::Yoga" -> "Yoga"

\* Display for SkillHits: the variant's name
SkillHits_to_string(h) ==
    CASE h = "SkillHits::One" -> "One"
      [] h = "SkillHits::Three" -> "Three"
      [] h = "SkillHits::Five" -> "Five"
      [] h = "SkillHits::Heal" -> "Heal"

\* Debug for SkillHashtags: the variant's name
SkillHashtags_debug(h) ==
    CASE h = "SkillHashtags::Empty" -> "Empty"
      [] h = "SkillHashtags::Chest" -> "Chest"
      [] h = "SkillHashtags::UpperArms" -> "UpperArms"
      [] h = "SkillHashtags::Shoulders" -> "Shoulders"
      [] h = "SkillHashtags::Trapezius" -> "Trapezius"
      [] h = "SkillHashtags::Core" -> "Core"
      [] h = "SkillHashtags::Posture" -> "Posture"
      [] h = "SkillHashtags::Legs" -> "Legs"
      [] h = "SkillHashtags::Glutes" -> "Glutes"
      [] h = "SkillHashtags::LowerBody" -> "LowerBody"
      [] h = "SkillHashtags::Abs" -> "Abs"
      [] h = "SkillHashtags::Waist" -> "Waist"
      [] h = "SkillHashtags::Stamina" -> "Stamina"
      [] h = "SkillHashtags::Back" -> "Back"
      [] h = "SkillHashtags::Flexibility" -> "Flexibility"
      [] h = "SkillHashtags::Aerobic" -> "Aerobic"

\* Display for SkillHashtags without its two special arms: "#" and the
\* variant's name for every variant
SkillHashtags_to_string_no_space(h) ==
    CASE h = "SkillHashtags::Empty" -> "#Empty"
      [] h = "SkillHashtags::Chest" -> "#Chest"
      [] h = "SkillHashtags::UpperArms" -> "#UpperArms"
      [] h = "SkillHashtags::Shoulders" -> "#Shoulders"
      [] h = "SkillHashtags::Trapezius" -> "#Trapezius"
      [] h = "SkillHashtags::Core" -> "#Core"
      [] h = "SkillHashtags::Posture" -> "#Posture"
      [] h = "SkillHashtags::Legs" -> "#Legs"
      [] h = "SkillHashtags::Glutes" -> "#Glutes"
      [] h = "SkillHashtags::LowerBody" -> "#LowerBody"
      [] h = "SkillHashtags::Abs" -> "#Abs"
      [] h = "SkillHashtags::Waist" -> "#Waist"
      [] h = "SkillHashtags::Stamina" -> "#Stamina"
      [] h = "SkillHashtags::Back" -> "#Back"
      [] h = "SkillHashtags::Flexibility" -> "#Flexibility"
      [] h = "SkillHashtags::Aerobic" -> "#Aerobic"

\* Display for SkillHashtags: "#" and the name, two of them with a space
SkillHashtags_to_string(h) ==
    CASE h = "SkillHashtags::UpperArms" -> "#Upper Arms"
      [] h = "SkillHashtags::LowerBody" -> "#Lower Body"
      [] h = "SkillHashtags::Empty" -> "#Empty"
      [] h = "SkillHashtags::Chest" -> "#Chest"
      [] h = "SkillHashtags::Shoulders" -> "#Shoulders"
      [] h = "SkillHashtags::Trapezius" -> "#Trapezius"
      [] h = "SkillHashtags::Core" -> "#Core"
      [] h = "SkillHashtags::Posture" -> "#Posture"
      [] h = "SkillHashtags::Legs" -> "#Legs"
      [] h = "SkillHashtags::Glutes" -> "#Glutes"
      [] h = "SkillHashtags::Abs" -> "#Abs"
      [] h = "SkillHashtags::Waist" -> "#Waist"
      [] h = "SkillHashtags::Stamina" -> "#Stamina"
      [] h = "SkillHashtags::Back" -> "#Back"
      [] h = "SkillHashtags::Flexibility" -> "#Flexibility"
      [] h = "SkillHashtags::Aerobic" -> "#Aerobic"

\* FromSql for SkillTypes with the first variant in the `_` arm
SkillTypes_column_result_first(t) ==
    CASE t = "Core" -> "SkillTypes::Core"
      [] t = "Legs" -> "SkillTypes::Legs"
      [] t = "Yoga" -> "SkillTypes::Yoga"
      [] OTHER -> "SkillTypes::Arms"

\* FromSql for SkillTypes: any other text reads as Yoga
SkillTypes_column_result(t) ==
    CASE t = "Arms" -> "SkillTypes::Arms"
      [] t = "Core" -> "SkillTypes::Core"
      [] t = "Legs" -> "SkillTypes::Legs"
      [] OTHER -> "SkillTypes::Yoga"

\* FromSql for SkillHits: any other text reads as Heal
SkillHits_column_result(t) ==
    CASE t = "One" -> "SkillHits::One"
      [] t = "Three" -> "SkillHits::Three"
      [] t = "Five" -> "SkillHits::Five"
      [] OTHER -> "SkillHits::Heal"

\* FromStr for SkillHashtags, on the text of one token
SkillHashtags_from_str(s) ==
    CASE s = "" \/ s = "#Empty" -> [ok |-> TRUE, val |-> "SkillHashtags::Empty"]
      [] s = "#Chest" -> [ok |-> TRUE, val |-> "SkillHashtags::Chest"]
      [] s = "#Upper Arms" -> [ok |-> TRUE, val |-> "SkillHashtags::UpperArms"]
      [] s = "#Shoulders" -> [ok |-> TRUE, val |-> "SkillHashtags::Shoulders"]
      [] s = "#Trapezius" -> [ok |-> TRUE, val |-> "SkillHashtags::Trapezius"]
      [] s = "#Core" -> [ok |-> TRUE, val |-> "SkillHashtags::Core"]
      [] s = "#Posture" -> [ok |-> TRUE, val |-> "SkillHashtags::Posture"]
      [] s = "#Legs" -> [ok |-> TRUE, val |-> "SkillHashtags::Legs"]
      [] s = "#Glutes" -> [ok |-> TRUE, val |-> "SkillHashtags::Glutes"]
      [] s = "#Abs" -> [ok |-> TRUE, val |-> "SkillHashtags::Abs"]
      [] s = "#Stamina" -> [ok |-> TRUE, val |-> "SkillHashtags::Stamina"]
      [] s = "#Back" -> [ok |-> TRUE, val |-> "SkillHashtags::Back"]
      [] s = "#Flexibility" -> [ok |-> TRUE, val |-> "SkillHashtags::Flexibility"]
      [] s = "#Aerobic" -> [ok |-> TRUE, val |-> "SkillHashtags::Aerobic"]
      [] s = "#Waist" -> [ok |-> TRUE, val |-> "SkillHashtags::Waist"]
      [] s = "#Lower Body" -> [ok |-> TRUE, val |-> "SkillHashtags::LowerBody"]
      [] OTHER -> [ok |-> FALSE, val |-> "SkillHashtags::Empty"]

\* FromStr for SkillTypes
SkillTypes_from_str(s) ==
    CASE s = "Arms" -> [ok |-> TRUE, val |-> "SkillTypes::Arms"]
      [] s = "Core" -> [ok |-> TRUE, val |-> "SkillTypes::Core"]
      [] s = "Legs" -> [ok |-> TRUE, val |-> "SkillTypes::Legs"]
      [] s = "Yoga" -> [ok |-> TRUE, val |-> "SkillTypes::Yoga"]
      [] OTHER -> [ok |-> FALSE, val |-> "()"]

\* FromStr for SkillHits
SkillHits_from_str(s) ==
    CASE s = "One" -> [ok |-> TRUE, val |-> "SkillHits::One"]
      [] s = "Three" -> [ok |-> TRUE, val |-> "SkillHits::Three"]
      [] s = "Five" -> [ok |-> TRUE, val |-> "SkillHits::Five"]
      [] s = "Heal" -> [ok |-> TRUE, val |-> "SkillHits::Heal"]
      [] OTHER -> [ok |-> FALSE, val |-> "()"]

(***************************************************************************)
(* The catalog.  all_skills_default lists 43 skills; the model seeds the   *)
(* table with two of them.                                                 *)
(***************************************************************************)
ChairPose ==
    [ name |-> "Chair Pose", skill_type |-> "SkillTypes::Yoga", hits |-> "SkillHits::One",
      damage |-> <<30, 260, 655, 1000>>, unlocks |-> <<1, 77, 240, 286>>,
      hashtags |-> <<"SkillHashtags::LowerBody", "SkillHashtags::Core", "SkillHashtags::Stamina">>,
      recharge_time |-> <<1, 2, 3, 0>>, goal_reps |-> 2000, completed_reps |-> 0 ]

BoatPose ==
    [ name |-> "Boat Pose", skill_type |-> "SkillTypes::Yoga", hits |-> "SkillHits::Five",
      damage |-> <<155, 320, 495, 655>>, unlocks |-> <<71, 137, 255, 286>>,
      hashtags |-> <<"SkillHashtags::Abs", "SkillHashtags::Core", "SkillHashtags::Stamina">>,
      recharge_time |-> <<3, 3, 5, 0>>, goal_reps |-> 2000, completed_reps |-> 0 ]

all_skills_default == <<ChairPose, BoatPose>>

\* A skill that is in no table: the test module's "Test Skill".
TestSkill ==
    [ name |-> "Test Skill", skill_type |-> "SkillTypes::Arms", hits |-> "SkillHits::One",
      damage |-> <<0, 0, 0, 0>>, unlocks |-> <<0, 0, 0, 0>>,
      hashtags |-> <<"SkillHashtags::Empty", "SkillHashtags::Empty", "SkillHashtags::Empty">>,
      recharge_time |-> <<0, 0, 0, 0>>, goal_reps |-> 1000, completed_reps |-> 10 ]

(***************************************************************************)
(* The skills table.                                                       *)
(***************************************************************************)
\* the encoding of an array without the "," after each element
encode_usize_array_no_comma(a) == Concat([i \in 1..Len(a) |-> usize_to_string(a[i])])

\* skill.damage.iter().map(|i| i.to_string() + ",").collect::<String>()
encode_usize_array(a) == Concat([i \in 1..Len(a) |-> usize_to_string(a[i]) \o <<",">>])

\* skill.hashtags.iter().map(|i| i.to_string() + ",").collect::<String>()
encode_hashtag_array(a) == Concat([i \in 1..Len(a) |-> <<SkillHashtags_to_string(a[i]), ",">>])

\* the row setup_db binds for one skill
skill_row(skill) ==
    [ name |-> skill.name,
      type |-> SkillTypes_to_string(skill.skill_type),
      hits |-> SkillHits_to_string(skill.hits),
      damage |-> encode_usize_array(skill.damage),
      unlock |-> encode_usize_array(skill.unlocks),
      hashtag |-> encode_hashtag_array(skill.hashtags),
      recharge |-> encode_usize_array(skill.recharge_time),
      goal_reps |-> skill.goal_reps,
      completed_reps |-> skill.completed_reps ]

\* INSERT OR REPLACE INTO skills: the row of the same name is deleted and
\* the new one inserted
insert_or_replace(tbl, row) ==
    LET IsOther(r) == r.name # row.name
    IN  Append(SelectSeq(tbl, IsOther), row)

\* INSERT OR IGNORE INTO skills: name is UNIQUE
insert_or_ignore(tbl, row) ==
    IF \E i \in 1..Len(tbl) : tbl[i].name = row.name THEN tbl ELSE Append(tbl, row)

RECURSIVE insert_all(_, _)
insert_all(tbl, list) ==
    IF list = <<>> THEN tbl
    ELSE insert_all(insert_or_ignore(tbl, skill_row(Head(list))), Tail(list))

\* setup_db, the skills table: one INSERT OR IGNORE per default skill
setup_db(tbl) == insert_all(tbl, all_skills_default)

\* str::split(',') followed by filter(|s| !s.is_empty())
RECURSIVE split_nonempty(_, _)
split_nonempty(text, cur) ==
    IF text = <<>> THEN (IF cur = <<>> THEN <<>> ELSE <<cur>>)
    ELSE IF Head(text) = ","
         THEN (IF cur = <<>> THEN <<>> ELSE <<cur>>) \o split_nonempty(Tail(text), <<>>)
         ELSE split_nonempty(Tail(text), Append(cur, Head(text)))

\* the damage, unlocks and recharge_time blocks of get_all_skills: [0; 4]
\* overwritten token by token
decode_usize_array(text) ==
    LET toks == split_nonempty(text, <<>>)
    IN  [i \in 1..4 |-> IF i <= Len(toks) THEN parse_unwrap_or_0(toks[i]) ELSE 0]

\* the text of a token that is one word
token_str(tok) == IF Len(tok) = 1 THEN tok[1] ELSE "?"

\* the hashtags block of get_all_skills: [Empty; 3] overwritten token by token
decode_hashtag_array(text) ==
    LET toks == split_nonempty(text, <<>>)
    IN  [i \in 1..3 |-> IF i <= Len(toks) THEN SkillHashtags_from_str(token_str(toks[i])).val
                        ELSE "SkillHashtags::Empty"]

\* the closure of get_all_skills: one row to one Skill
skill_from_row(row) ==
    [ name |-> row.name,
      skill_type |-> SkillTypes_column_result(row.type),
      hits |-> SkillHits_column_result(row.hits),
      damage |-> decode_usize_array(row.damage),
      unlocks |-> decode_usize_array(row.unlock),
      hashtags |-> decode_hashtag_array(row.hashtag),
      recharge_time |-> decode_usize_array(row.recharge),
      goal_reps |-> row.goal_reps,
      completed_reps |-> row.completed_reps ]

\* Skill::get_all_skills: SELECT * FROM skills, in rowid order
get_all_skills(tbl) == [i \in 1..Len(tbl) |-> skill_from_row(tbl[i])]

\* result_vec[i] = ... of get_all_skills with i past the end of the array:
\* the index is checked and the process panics
decode_out_of_bounds(text, n) == Len(split_nonempty(text, <<>>)) > n

get_all_skills_panics(tbl) ==
    \E i \in 1..Len(tbl) :
        \/ decode_out_of_bounds(tbl[i].damage, 4)
        \/ decode_out_of_bounds(tbl[i].unlock, 4)
        \/ decode_out_of_bounds(tbl[i].hashtag, 3)
        \/ decode_out_of_bounds(tbl[i].recharge, 4)

\* binding a usize parameter: rusqlite converts it with i64::try_from
to_sql_ok(n) == n <= I64Max

\* update_reps with the SET clause of set_reps: the value replaces the count
update_reps_overwrites(tbl, self, reps_today) ==
    IF ~to_sql_ok(reps_today) THEN [ok |-> FALSE, tbl |-> tbl]
    ELSE [ ok |-> TRUE,
           tbl |-> [i \in 1..Len(tbl) |->
                      IF tbl[i].name = self.name
                      THEN [tbl[i] EXCEPT !.completed_reps = reps_today]
                      ELSE tbl[i]] ]

\* update_reps without its WHERE clause: every row is incremented
update_reps_no_where(tbl, self, reps_today) ==
    IF ~to_sql_ok(reps_today) THEN [ok |-> FALSE, tbl |-> tbl]
    ELSE [ ok |-> TRUE,
           tbl |-> [i \in 1..Len(tbl) |->
                      [tbl[i] EXCEPT !.completed_reps = @ + reps_today]] ]

\* Skill::update_reps:
\* UPDATE skills SET completed_reps = completed_reps + :reps_today WHERE name = :name
update_reps(tbl, self, reps_today) ==
    IF ~to_sql_ok(reps_today) THEN [ok |-> FALSE, tbl |-> tbl]
    ELSE [ ok |-> TRUE,
           tbl |-> [i \in 1..Len(tbl) |->
                      IF tbl[i].name = self.name
                      THEN [tbl[i] EXCEPT !.completed_reps = @ + reps_today]
                      ELSE tbl[i]] ]

\* set_reps writing the goal_reps column
set_reps_writes_goal(tbl, self, total_reps) ==
    IF ~to_sql_ok(total_reps) THEN [ok |-> FALSE, tbl |-> tbl]
    ELSE [ ok |-> TRUE,
           tbl |-> [i \in 1..Len(tbl) |->
                      IF tbl[i].name = self.name
                      THEN [tbl[i] EXCEPT !.goal_reps = total_reps]
                      ELSE tbl[i]] ]

\* set_reps with the SET clause of update_reps: the value is added
set_reps_adds(tbl, self, total_reps) ==
    IF ~to_sql_ok(total_reps) THEN [ok |-> FALSE, tbl |-> tbl]
    ELSE [ ok |-> TRUE,
           tbl |-> [i \in 1..Len(tbl) |->
                      IF tbl[i].name = self.name
                      THEN [tbl[i] EXCEPT !.completed_reps = @ + total_reps]
                      ELSE tbl[i]] ]

\* Skill::set_reps:
\* UPDATE skills SET completed_reps = :total_reps WHERE name = :name
set_reps(tbl, self, total_reps) ==
    IF ~to_sql_ok(total_reps) THEN [ok |-> FALSE, tbl |-> tbl]
    ELSE [ ok |-> TRUE,
           tbl |-> [i \in 1..Len(tbl) |->
                      IF tbl[i].name = self.name
                      THEN [tbl[i] EXCEPT !.completed_reps = total_reps]
                      ELSE tbl[i]] ]

(***************************************************************************)
(* The workouts table.                                                     *)
(***************************************************************************)
\* the loop of save_workout_to_db without its `if rep_count != 0`
workout_pairs_keeps_zero(skill_list, rep_list) ==
    [i \in 1..Min(Len(skill_list), Len(rep_list)) |->
       [skill |-> skill_list[i], reps |-> parse_unwrap_or_0(rep_list[i])]]

\* the loop of save_workout_to_db pushing the new total of the skill in
\* place of rep_count
RECURSIVE workout_pairs_records_total(_, _)
workout_pairs_records_total(skill_list, rep_list) ==
    IF skill_list = <<>> \/ rep_list = <<>> THEN <<>>
    ELSE LET rep_count == parse_unwrap_or_0(Head(rep_list))
             rest == workout_pairs_records_total(Tail(skill_list), Tail(rep_list))
         IN  IF rep_count # 0
             THEN <<[skill |-> Head(skill_list),
                     reps |-> Head(skill_list).completed_reps + rep_count]>> \o rest
             ELSE rest

\* the loop of save_workout_to_db over skill_list.iter().zip(rep_list.iter())
RECURSIVE workout_pairs(_, _)
workout_pairs(skill_list, rep_list) ==
    IF skill_list = <<>> \/ rep_list = <<>> THEN <<>>
    ELSE LET rep_count == parse_unwrap_or_0(Head(rep_list))
             rest == workout_pairs(Tail(skill_list), Tail(rep_list))
         IN  IF rep_count # 0 THEN <<[skill |-> Head(skill_list), reps |-> rep_count]>> \o rest
             ELSE rest

\* serde's Serialize for Skill: an enum is written as its variant's name
skill_to_value(s) ==
    [ name |-> s.name,
      skill_type |-> SkillTypes_to_string(s.skill_type),
      hits |-> SkillHits_to_string(s.hits),
      damage |-> s.damage, unlocks |-> s.unlocks,
      hashtags |-> [i \in 1..Len(s.hashtags) |-> SkillHashtags_debug(s.hashtags[i])],
      recharge_time |-> s.recharge_time,
      goal_reps |-> s.goal_reps, completed_reps |-> s.completed_reps ]

\* serde_json::to_value(workout)
to_value(workout) ==
    [ skill |-> [i \in 1..Len(workout.skill) |->
                   <<skill_to_value(workout.skill[i].skill), workout.skill[i].reps>>] ]

\* serde's Deserialize for the three enums: an unknown name is an error
variant_from_value(variants, prefix_name, name) ==
    IF \E v \in variants : prefix_name[v] = name
    THEN [ok |-> TRUE, val |-> CHOOSE v \in variants : prefix_name[v] = name]
    ELSE [ok |-> FALSE, val |-> name]

SkillTypes_from_value(name) ==
    variant_from_value(SkillTypes, [v \in SkillTypes |-> SkillTypes_to_string(v)], name)

SkillHits_from_value(name) ==
    variant_from_value(SkillHits, [v \in SkillHits |-> SkillHits_to_string(v)], name)

SkillHashtags_from_value(name) ==
    variant_from_value(SkillHashtags, [v \in SkillHashtags |-> SkillHashtags_debug(v)], name)

\* serde's Deserialize for Skill
skill_from_value(v) ==
    LET t == SkillTypes_from_value(v.skill_type)
        h == SkillHits_from_value(v.hits)
        tags == [i \in 1..Len(v.hashtags) |-> SkillHashtags_from_value(v.hashtags[i])]
    IN  [ ok |-> t.ok /\ h.ok /\ Len(tags) = 3 /\ \A i \in 1..Len(tags) : tags[i].ok,
          val |-> [ name |-> v.name, skill_type |-> t.val, hits |-> h.val,
                    damage |-> v.damage, unlocks |-> v.unlocks,
                    hashtags |-> [i \in 1..Len(tags) |-> tags[i].val],
                    recharge_time |-> v.recharge_time,
                    goal_reps |-> v.goal_reps, completed_reps |-> v.completed_reps ] ]

\* serde_json::from_value::<Workout>
from_value(v) ==
    LET ps == [i \in 1..Len(v.skill) |-> skill_from_value(v.skill[i][1])]
    IN  [ ok |-> \A i \in 1..Len(ps) : ps[i].ok,
          val |-> [skill |-> [i \in 1..Len(ps) |->
                                [skill |-> ps[i].val, reps |-> v.skill[i][2]]]] ]

\* save_workout_to_db returning early when no pair was kept
save_workout_skips_empty(tbl, current_time, skill_list, rep_list) ==
    LET workout == [skill |-> workout_pairs(skill_list, rep_list)]
    IN  IF workout.skill = <<>> THEN tbl
        ELSE Append(tbl, [timestamp |-> current_time, workout |-> to_value(workout)])

\* save_workout_to_db as INSERT OR REPLACE on a timestamp that is a key
save_workout_replaces(tbl, current_time, skill_list, rep_list) ==
    LET workout == [skill |-> workout_pairs(skill_list, rep_list)]
        IsOther(row) == row.timestamp # current_time
    IN  Append(SelectSeq(tbl, IsOther),
               [timestamp |-> current_time, workout |-> to_value(workout)])

\* save_workout_to_db: INSERT INTO workouts VALUES (:timestamp, :workout)
save_workout_to_db(tbl, current_time, skill_list, rep_list) ==
    LET workout == [skill |-> workout_pairs(skill_list, rep_list)]
    IN  Append(tbl, [timestamp |-> current_time, workout |-> to_value(workout)])

\* get_workouts_from_db with the rows read by from_value(..).unwrap_or_default()
get_workouts_never_panics(tbl) == FALSE

\* get_workouts_from_db: serde_json::from_value(..).expect(..) in the row closure
get_workouts_panics(tbl) == \E i \in 1..Len(tbl) : ~from_value(tbl[i].workout).ok

\* get_workouts_from_db without workouts.reverse()
get_workouts_in_insertion_order(tbl) ==
    [i \in 1..Len(tbl) |->
       [time |-> tbl[i].timestamp, workout |-> from_value(tbl[i].workout).val]]

\* get_workouts_from_db: SELECT * FROM workouts, each row deserialized, then
\* workouts.reverse()
get_workouts_from_db(tbl) ==
    Reverse([i \in 1..Len(tbl) |->
               [time |-> tbl[i].timestamp, workout |-> from_value(tbl[i].workout).val]])

(***************************************************************************)
(* The derived metrics and the identity of a Skill.                        *)
(***************************************************************************)
\* `x as isize` on a usize: the same bits, read as two's complement
as_isize(x) == IF x > IsizeMax THEN x - 2^UsizeBits ELSE x

\* isize subtraction that left the range: a build with overflow checks
\* panics, a build without them wraps
isize_sub(a, b) ==
    LET d == a - b
    IN  IF d > IsizeMax THEN {[panic |-> TRUE, val |-> 0], [panic |-> FALSE, val |-> d - 2^UsizeBits]}
        ELSE IF d < IsizeMin THEN {[panic |-> TRUE, val |-> 0], [panic |-> FALSE, val |-> d + 2^UsizeBits]}
        ELSE {[panic |-> FALSE, val |-> d]}

\* Skill::get_reps_until_goal:
\* (self.goal_reps as isize - self.completed_reps as isize).max(0) as usize
\* The set of results the builds of the crate can give.
get_reps_until_goal(self) ==
    { IF r.panic THEN r ELSE [panic |-> FALSE, val |-> Max(r.val, 0)] :
        r \in isize_sub(as_isize(self.goal_reps), as_isize(self.completed_reps)) }

\* An f64 keeps F64MantBits significant bits (53 of the 64 of a usize on the
\* target; two fewer than a usize here).
F64MantBits == UsizeBits - 2

RECURSIVE f64_ulp(_, _)
f64_ulp(n, step) == IF n < (2^F64MantBits) * step THEN step ELSE f64_ulp(n, 2 * step)

\* `n as f64` on a usize: the nearest representable value, ties to even
as_f64(n) ==
    LET step == f64_ulp(n, 1)
        q == n \div step
        r == n % step
    IN  IF 2 * r < step THEN q * step
        ELSE IF 2 * r > step THEN (q + 1) * step
        ELSE IF q % 2 = 0 THEN q * step ELSE (q + 1) * step

RECURSIVE GCD(_, _)
GCD(a, b) == IF b = 0 THEN a ELSE GCD(b, a % b)

\* An f64 result: a non-negative quotient in lowest terms, infinity, or NaN.
\* The rounding of the division and of the product is not modelled.
F64(n, d) == LET g == GCD(n, d) IN [kind |-> "num", num |-> n \div g, den |-> d \div g]

F64Inf == [kind |-> "inf", num |-> 1, den |-> 0]

F64NaN == [kind |-> "nan", num |-> 0, den |-> 0]

\* a / b on f64
f64_div(a, b) == IF b # 0 THEN F64(a, b) ELSE IF a = 0 THEN F64NaN ELSE F64Inf

\* f64::min(x, 1.0): the other operand when one is NaN
f64_min_1(x) ==
    IF x.kind \in {"nan", "inf"} THEN F64(1, 1)
    ELSE IF x.num > x.den THEN F64(1, 1) ELSE x

\* x * 100.0
f64_mul_100(x) == IF x.kind = "num" THEN F64(x.num * 100, x.den) ELSE x

\* get_rep_percent without .min(1.0)
get_rep_percent_no_min(self) ==
    f64_mul_100(f64_div(as_f64(self.completed_reps), as_f64(self.goal_reps)))

\* Skill::get_rep_percent:
\* (self.completed_reps as f64 / self.goal_reps as f64).min(1.0) * 100.0
get_rep_percent(self) ==
    f64_mul_100(f64_min_1(f64_div(as_f64(self.completed_reps), as_f64(self.goal_reps))))

\* Skill::get_rep_percent_uncapped:
\* (self.completed_reps as f64 / self.goal_reps as f64) * 100.0
get_rep_percent_uncapped(self) ==
    f64_mul_100(f64_div(as_f64(self.completed_reps), as_f64(self.goal_reps)))

\* the equality #[derive(PartialEq)] would give: field by field
Skill_eq_derived(self, other) == self = other

\* impl PartialEq for Skill
Skill_eq(self, other) == self.name = other.name

\* the hash #[derive(Hash)] would give: every field is fed to the hasher
Skill_hash_derived(self) == self

\* impl Hash for Skill: the hash of the name
Skill_hash(self) == self.name

\* HashMap<Skill, String>::get: an entry whose key has the hash of `k` and
\* is equal to it
HashMap_get(map, k) ==
    LET hits == {e \in DOMAIN map : Skill_hash(e) = Skill_hash(k) /\ Skill_eq(e, k)}
    IN  IF hits = {} THEN [ok |-> FALSE, val |-> <<>>]
        ELSE [ok |-> TRUE, val |-> map[CHOOSE e \in hits : TRUE]]

(***************************************************************************)
(* The state after first-run bootstrap and RingFitApp::default.            *)
(***************************************************************************)
Languages == {"Languages::English", "Languages::German"}

(***************************************************************************)
(* Localization.  A text is a sequence of characters; a string literal of  *)
(* the source that is never taken apart is one element.                    *)
(***************************************************************************)
\* the characters of a skill name
name_chars(name) ==
    CASE name = "Chair Pose" ->
           <<"C", "h", "a", "i", "r", " ", "P", "o", "s", "e">>
      [] name = "Boat Pose" ->
           <<"B", "o", "a", "t", " ", "P", "o", "s", "e">>
      [] name = "Open & Close Leg Raise" ->
           <<"O", "p", "e", "n", " ", "&", " ", "C", "l", "o", "s", "e", " ", "L", "e", "g", " ", "R", "a", "i", "s", "e">>
      [] name = "Knee-to-Chest" ->
           <<"K", "n", "e", "e", "-", "t", "o", "-", "C", "h", "e", "s", "t">>
      [] name = "Test Skill" ->
           <<"T", "e", "s", "t", " ", "S", "k", "i", "l", "l">>
      [] name = "Test Skill 2" ->
           <<"T", "e", "s", "t", " ", "S", "k", "i", "l", "l", " ", "2">>
      [] OTHER -> <<name>>

UpperCase == <<"A", "B", "C", "D", "E", "F", "G", "H", "I", "J", "K", "L", "M", "N", "O", "P", "Q", "R", "S", "T", "U", "V", "W", "X", "Y", "Z">>

LowerCase == <<"a", "b", "c", "d", "e", "f", "g", "h", "i", "j", "k", "l", "m", "n", "o", "p", "q", "r", "s", "t", "u", "v", "w", "x", "y", "z">>

\* char::to_ascii_lowercase
to_ascii_lowercase(ch) ==
    IF \E i \in 1..Len(UpperCase) : UpperCase[i] = ch
    THEN LowerCase[CHOOSE i \in 1..Len(UpperCase) : UpperCase[i] = ch]
    ELSE ch

\* skill_key without replace('&', "and")
skill_key_keeps_ampersand(self) ==
    LET cs == name_chars(self.name)
        lowered == [i \in 1..Len(cs) |-> to_ascii_lowercase(cs[i])]
        spaced == [i \in 1..Len(cs) |-> IF lowered[i] = " " THEN "_" ELSE lowered[i]]
    IN  <<"s", "k", "i", "l", "l", "_">> \o
        Concat([i \in 1..Len(cs) |-> <<spaced[i]>>])

\* Skill::get_translated_name, the key:
\* "skill_" + name.to_ascii_lowercase().replace(' ', "_").replace('&', "and")
skill_key(self) ==
    LET cs == name_chars(self.name)
        lowered == [i \in 1..Len(cs) |-> to_ascii_lowercase(cs[i])]
        spaced == [i \in 1..Len(cs) |-> IF lowered[i] = " " THEN "_" ELSE lowered[i]]
    IN  <<"s", "k", "i", "l", "l", "_">> \o
        Concat([i \in 1..Len(cs) |-> IF spaced[i] = "&" THEN <<"a", "n", "d">>
                                     ELSE <<spaced[i]>>])

\* SkillHashtags::get_translated_name, the key: the match on self
hashtag_key(self) ==
    CASE self = "SkillHashtags::Empty" -> <<"hashtag_empty">>
      [] self = "SkillHashtags::Chest" -> <<"hashtag_chest">>
      [] self = "SkillHashtags::UpperArms" -> <<"hashtag_upper_arms">>
      [] self = "SkillHashtags::Shoulders" -> <<"hashtag_shoulders">>
      [] self = "SkillHashtags::Trapezius" -> <<"hashtag_trapezius">>
      [] self = "SkillHashtags::Core" -> <<"hashtag_core">>
      [] self = "SkillHashtags::Posture" -> <<"hashtag_posture">>
      [] self = "SkillHashtags::Legs" -> <<"hashtag_legs">>
      [] self = "SkillHashtags::Glutes" -> <<"hashtag_glutes">>
      [] self = "SkillHashtags::LowerBody" -> <<"hashtag_lower_body">>
      [] self = "SkillHashtags::Abs" -> <<"hashtag_abs">>
      [] self = "SkillHashtags::Waist" -> <<"hashtag_waist">>
      [] self = "SkillHashtags::Stamina" -> <<"hashtag_stamina">>
      [] self = "SkillHashtags::Back" -> <<"hashtag_back">>
      [] self = "SkillHashtags::Flexibility" -> <<"hashtag_flexibility">>
      [] self = "SkillHashtags::Aerobic" -> <<"hashtag_aerobic">>

K_chair_pose == <<"s", "k", "i", "l", "l", "_", "c", "h", "a", "i", "r", "_", "p", "o", "s", "e">>
K_boat_pose == <<"s", "k", "i", "l", "l", "_", "b", "o", "a", "t", "_", "p", "o", "s", "e">>
K_open_and_close == <<"s", "k", "i", "l", "l", "_", "o", "p", "e", "n", "_", "a", "n", "d", "_", "c", "l", "o", "s", "e", "_", "l", "e", "g", "_", "r", "a", "i", "s", "e">>

\* one entry of assets/translations.json: a key with its English and its
\* German string; the model's strings name their language and their key
translation(key) == [key |-> key, en |-> <<"en:">> \o key, de |-> <<"de:">> \o key]

\* get_all_translations: the entries of assets/translations.json; the model
\* keeps those of the skills it seeds, of one more skill, of the hashtags
\* and of three menu strings
get_all_translations ==
    << translation(K_chair_pose), translation(K_boat_pose), translation(K_open_and_close) >>
        \o [i \in 1..Len(get_all_hashtags) |-> translation(hashtag_key(get_all_hashtags[i]))]
        \o << translation(<<"back">>), translation(<<"cancel">>), translation(<<"confirm">>) >>

\* INSERT OR IGNORE INTO translations: key is UNIQUE
RECURSIVE insert_translations(_, _)
insert_translations(rows, list) ==
    IF list = <<>> THEN rows
    ELSE insert_translations(
             IF \E i \in 1..Len(rows) : rows[i].key = Head(list).key THEN rows
             ELSE Append(rows, Head(list)),
             Tail(list))

\* setup_db, the translations table
setup_translations == [exists |-> TRUE, rows |-> insert_translations(<<>>, get_all_translations)]

\* get_string: SELECT en|de FROM translations WHERE key = :key, query_row
get_string(tbl, lang, key) ==
    LET hits == {i \in 1..Len(tbl.rows) : tbl.rows[i].key = key}
    IN  IF ~tbl.exists \/ hits = {} THEN [ok |-> FALSE, val |-> <<>>]
        ELSE LET row == tbl.rows[CHOOSE i \in hits : \A j \in hits : i <= j]
             IN  [ok |-> TRUE,
                  val |-> IF lang = "Languages::English" THEN row.en ELSE row.de]

\* Skill::get_translated_name with unwrap_or_default in place of unwrap_or_else
Skill_get_translated_name_or_default(tbl, self, lang) ==
    get_string(tbl, lang, skill_key(self)).val

\* Skill::get_translated_name
Skill_get_translated_name(tbl, self, lang) ==
    LET r == get_string(tbl, lang, skill_key(self))
    IN  IF r.ok THEN r.val ELSE <<"Invalid">>

\* SkillHashtags::get_translated_name
SkillHashtags_get_translated_name(tbl, self, lang) ==
    LET r == get_string(tbl, lang, hashtag_key(self))
    IN  IF r.ok THEN r.val ELSE <<"Invalid">>

\* get_language_hashmaps: the skill names by skill (the keys are the Skill
\* values read from the table when the hashmap is built), the hashtag names
\* by hashtag, and every bundled translation by key
get_language_hashmaps(skill_tbl, tbl, target_language) ==
    LET all_skills == get_all_skills(skill_tbl)
        all_menus == get_all_translations
    IN  [ skill_names |->
            [skill \in {all_skills[i] : i \in 1..Len(all_skills)} |->
               Skill_get_translated_name(tbl, skill, target_language)],
          hashtag_names |->
            [h \in SkillHashtags |-> SkillHashtags_get_translated_name(tbl, h, target_language)],
          menu_names |->
            [k \in {all_menus[i].key : i \in 1..Len(all_menus)} |->
               LET item == all_menus[CHOOSE i \in 1..Len(all_menus) : all_menus[i].key = k]
               IN  IF target_language = "Languages::English" THEN item.en ELSE item.de] ]

\* switch_language without the assignment of rfa.menu_names
switch_language_keeps_menu_names(target_language, written) ==
    /\ language' = target_language
    /\ UNCHANGED db_translations
    /\ IF written
       THEN /\ settings' = [language |-> target_language]
            /\ files' = [files EXCEPT !.settings = TRUE]
            /\ skill_names' =
                 get_language_hashmaps(db_skills, db_translations, target_language).skill_names
            /\ hashtag_names' =
                 get_language_hashmaps(db_skills, db_translations, target_language).hashtag_names
            /\ UNCHANGED menu_names
            /\ UNCHANGED panicked
       ELSE /\ panicked' = TRUE
            /\ UNCHANGED <<settings, skill_names, hashtag_names, menu_names, files>>

\* switch_language; written: std::fs::write of settings.json succeeded
\* (its expect panics otherwise, after rfa.language is assigned)
switch_language(target_language, written) ==
    /\ language' = target_language
    /\ UNCHANGED db_translations
    /\ IF written
       THEN /\ settings' = [language |-> target_language]
            /\ files' = [files EXCEPT !.settings = TRUE]
            /\ skill_names' =
                 get_language_hashmaps(db_skills, db_translations, target_language).skill_names
            /\ hashtag_names' =
                 get_language_hashmaps(db_skills, db_translations, target_language).hashtag_names
            /\ menu_names' =
                 get_language_hashmaps(db_skills, db_translations, target_language).menu_names
            /\ UNCHANGED panicked
       ELSE /\ panicked' = TRUE
            /\ UNCHANGED <<settings, skill_names, hashtag_names, menu_names, files>>

\* ToString for Languages
Languages_to_string(l) ==
    CASE l = "Languages::English" -> "English"
      [] l = "Languages::German" -> "Deutsch"

\* FromStr for Languages
Languages_from_str(s) ==
    CASE s = "English" -> [ok |-> TRUE, val |-> "Languages::English"]
      [] s = "Deutsch" \/ s = "German" -> [ok |-> TRUE, val |-> "Languages::German"]
      [] OTHER -> [ok |-> FALSE, val |-> "()"]

NoCall == [op |-> "start", a |-> "", b |-> 0, ok |-> TRUE]

Called(op) == [op |-> op, a |-> "", b |-> 0, ok |-> TRUE]

\* vec!["".into(); all_skills.len()]
empty_inputs(all_skills) == [i \in 1..Len(all_skills) |-> <<>>]

Init ==
    /\ db_skills = setup_db(<<>>)
    /\ db_workouts = <<>>
    /\ now = 0
    /\ skills = get_all_skills(db_skills)
    /\ input_reps = empty_inputs(skills)
    /\ menu = "None"
    /\ language \in Languages
    /\ settings = [language |-> language]
    /\ panicked = FALSE
    /\ db_translations = setup_translations
    /\ skill_names = get_language_hashmaps(db_skills, db_translations, language).skill_names
    /\ hashtag_names = get_language_hashmaps(db_skills, db_translations, language).hashtag_names
    /\ menu_names = get_language_hashmaps(db_skills, db_translations, language).menu_names
    /\ files = [settings |-> TRUE, db |-> TRUE]
    /\ call = NoCall
    /\ appended = <<>>

\* the translations table and the three hashmaps built from it
langVars == <<db_translations, skill_names, hashtag_names, menu_names>>

appVars == <<skills, input_reps, menu, language, settings, panicked, langVars, files>>

\* the library-level specifications start from the seeded database
InitLib == Init /\ language = "Languages::English"

\* the clock advances (in the library-level specification of the log; the
\* application is modelled within one second)
Tick ==
    /\ now < MaxTime
    /\ now' = now + 1
    /\ call' = Called("tick")
    /\ UNCHANGED <<db_skills, db_workouts, appended, appVars>>

(***************************************************************************)
(* SpecSkills: Skill::update_reps and Skill::set_reps called as library    *)
(* functions, on any skill and with any value.                             *)
(***************************************************************************)
\* the skills a caller may hold: those read from the table, and one that is
\* in no table
CallerSkills == {get_all_skills(db_skills)[i] : i \in 1..Len(db_skills)} \cup {TestSkill}

Deltas == {0, 1, 2, I64Max + 1}

Totals == {0, 1, 2001, I64Max, I64Max + 1}

LibUpdateReps(self, reps_today) ==
    LET r == update_reps(db_skills, self, reps_today)
    IN  /\ \A i \in 1..Len(db_skills) :
              r.tbl[i] = db_skills[i] \/ r.tbl[i].completed_reps <= MaxCompleted
        /\ db_skills' = r.tbl
        /\ call' = [op |-> "update_reps", a |-> self.name, b |-> reps_today, ok |-> r.ok]
        /\ UNCHANGED <<db_workouts, now, appended, appVars>>

LibSetReps(self, total_reps) ==
    LET r == set_reps(db_skills, self, total_reps)
    IN  /\ db_skills' = r.tbl
        /\ call' = [op |-> "set_reps", a |-> self.name, b |-> total_reps, ok |-> r.ok]
        /\ UNCHANGED <<db_workouts, now, appended, appVars>>

NextSkills ==
    \/ \E self \in CallerSkills, reps_today \in Deltas : LibUpdateReps(self, reps_today)
    \/ \E self \in CallerSkills, total_reps \in Totals : LibSetReps(self, total_reps)

SpecSkills == InitLib /\ [][NextSkills]_vars

(***************************************************************************)
(* SpecLog: save_workout_to_db and get_workouts_from_db called as library  *)
(* functions.                                                              *)
(***************************************************************************)
T_empty == <<>>
T_zero == <<"0">>
T_12 == <<"1", "2">>
T_abc == <<"abc">>
T_plus7 == <<"+", "7">>

\* the caller's lists: the skills of the table with one text each, and lists
\* of other lengths and other skills
RepLists == [1..2 -> {T_empty, T_zero, T_12}]

OddRepLists == {<<T_12, T_zero, T_abc>>, <<T_abc, T_12, T_plus7>>, <<T_12>>, <<>>}

SkillLists == {get_all_skills(db_skills), <<BoatPose, TestSkill, ChairPose>>}

SaveArgs ==
    ({get_all_skills(db_skills)} \X RepLists) \cup (SkillLists \X OddRepLists)

\* What the claims say an append records: the positions whose text is not
\* empty, parses, and parses to a value other than 0, in order.
ExpectedPairs(skill_list, rep_list) ==
    LET n == Min(Len(skill_list), Len(rep_list))
        keep(i) == /\ rep_list[i] # <<>>
                   /\ parse_usize(rep_list[i]).ok
                   /\ parse_usize(rep_list[i]).val # 0
        idx == SelectSeq([i \in 1..n |-> i], keep)
    IN  [k \in 1..Len(idx) |->
           [skill |-> skill_list[idx[k]], reps |-> parse_usize(rep_list[idx[k]]).val]]

LibSaveWorkout(skill_list, rep_list) ==
    /\ Len(db_workouts) < MaxRows
    /\ db_workouts' = save_workout_to_db(db_workouts, now, skill_list, rep_list)
    /\ appended' = Append(appended, [time |-> now, pairs |-> ExpectedPairs(skill_list, rep_list)])
    /\ call' = [op |-> "save_workout_to_db", a |-> skill_list, b |-> rep_list, ok |-> TRUE]
    /\ UNCHANGED <<db_skills, now, appVars>>

LibGetWorkouts ==
    /\ call' = [op |-> "get_workouts_from_db",
                a |-> IF get_workouts_panics(db_workouts) THEN <<>>
                      ELSE get_workouts_from_db(db_workouts),
                b |-> 0, ok |-> ~get_workouts_panics(db_workouts)]
    /\ UNCHANGED <<db_skills, db_workouts, now, appended, appVars>>

NextLog ==
    \/ \E args \in SaveArgs : LibSaveWorkout(args[1], args[2])
    \/ LibGetWorkouts
    \/ Tick

SpecLog == InitLib /\ [][NextLog]_vars

(***************************************************************************)
(* SpecPure: the accessors of a Skill applied to Skill values of any       *)
(* content.                                                                *)
(***************************************************************************)
GoalSamples == {0, 1, 50, 1000, 2000, IsizeMax, IsizeMax + 1, UsizeMax}

CompletedSamples == {0, 1, 10, 99, 500, 2001, 5000, IsizeMax, IsizeMax + 1, UsizeMax}

\* s_two and s_three of test_skill_equality
TestSkillTwo ==
    [ TestSkill EXCEPT !.hashtags = <<"SkillHashtags::Empty", "SkillHashtags::LowerBody", "SkillHashtags::Empty">>,
                       !.recharge_time = <<0, 2, 0, 0>>, !.goal_reps = 50, !.completed_reps = 99 ]

TestSkillThree == [TestSkillTwo EXCEPT !.name = "Test Skill 2"]

SkillSamples ==
    { [TestSkill EXCEPT !.name = n, !.goal_reps = g, !.completed_reps = c] :
        n \in {"Test Skill", "Test Skill 2"}, g \in GoalSamples, c \in CompletedSamples }

\* a skill of the catalog under the name of the test skill
TestSkillFour == [BoatPose EXCEPT !.name = "Test Skill", !.completed_reps = 1]

OtherSamples == {TestSkill, TestSkillTwo, TestSkillThree, TestSkillFour}

InitPure ==
    /\ db_skills = setup_db(<<>>)
    /\ db_workouts = <<>>
    /\ now = 0
    /\ skills = get_all_skills(db_skills)
    /\ input_reps = empty_inputs(skills)
    /\ menu = "None"
    /\ language = "Languages::English"
    /\ settings = [language |-> language]
    /\ panicked = FALSE
    /\ db_translations = setup_translations
    /\ skill_names = get_language_hashmaps(db_skills, db_translations, language).skill_names
    /\ hashtag_names = get_language_hashmaps(db_skills, db_translations, language).hashtag_names
    /\ menu_names = get_language_hashmaps(db_skills, db_translations, language).menu_names
    /\ files = [settings |-> TRUE, db |-> TRUE]
    /\ \E self \in SkillSamples, other \in OtherSamples :
          call = [op |-> "args", a |-> self, b |-> other, ok |-> TRUE]
    /\ appended = <<>>

dbVars == <<db_skills, db_workouts, now, appended>>

PureRepsUntilGoal ==
    /\ call.op = "args"
    /\ \E r \in get_reps_until_goal(call.a) :
          call' = [op |-> "get_reps_until_goal", a |-> call.a, b |-> r.val, ok |-> ~r.panic]
    /\ UNCHANGED <<dbVars, appVars>>

PureEq ==
    /\ call.op = "args"
    /\ call' = [op |-> "eq", a |-> call.a, b |-> call.b, ok |-> Skill_eq(call.a, call.b)]
    /\ UNCHANGED <<dbVars, appVars>>

NextPure ==
    \/ PureRepsUntilGoal
    \/ PureEq

SpecPure == InitPure /\ [][NextPure]_vars

(***************************************************************************)
(* SpecStored: get_all_skills and get_workouts_from_db on tables that hold  *)
(* what setup_db wrote for any skill, and what another writer of the file  *)
(* left in them.                                                           *)
(***************************************************************************)
ArraySamples == [1..4 -> {0, 7, 286, UsizeMax}]

N_short == <<"1", ",", "2", ",">>
N_gaps == <<",", ",", "5", ",", ",", "6", ",">>
N_words == <<"abc", ",", "2", ",", "-", "1", ",", "+", "4", ",">>
N_over == <<"9", "9", "9", "9", "9", ",", "1", ",">>
N_five == <<"1", ",", "2", ",", "3", ",", "4", ",", "5", ",">>
N_bare == <<"7">>

NumberTexts == {T_empty, N_short, N_gaps, N_words, N_over, N_five, N_bare}

G_one == <<"#Core", ",">>
G_bogus == <<"#Bogus", ",", "#Abs", ",">>
G_gaps == <<",", "#Abs", ",", ",">>
G_four == <<"#Core", ",", "#Abs", ",", "#Legs", ",", "#Back", ",">>

TagTexts == {T_empty, G_one, G_bogus, G_gaps, G_four}

\* texts of the type and hits columns: what setup_db writes, and others
VariantTexts ==
    {"Arms", "Core", "Legs", "Yoga", "One", "Three", "Five", "Heal",
     "", "Cardio", "arms", "Yoga ", "SkillTypes::Arms", "Two", "heal"}

\* a workout value that is what to_value writes, and values that are not
V_none == to_value([skill |-> <<>>])
V_boat == to_value([skill |-> <<[skill |-> BoatPose, reps |-> 12]>>])
V_bad_type ==
    [skill |-> <<<<[skill_to_value(ChairPose) EXCEPT !.skill_type = "Cardio"], 5>>>>]
V_bad_tags ==
    [skill |-> <<<<skill_to_value(BoatPose), 12>>,
                 <<[skill_to_value(ChairPose) EXCEPT !.hashtags = <<"Core", "Abs">>], 5>>>>]

StoredValues == {V_none, V_boat, V_bad_type, V_bad_tags}

\* setup_db's INSERT for one more default skill with the arrays given
SeedSkill(array) ==
    /\ call.op = "start"
    /\ db_workouts = <<>>
    /\ db_skills' = insert_or_ignore(db_skills,
                        skill_row([TestSkill EXCEPT !.damage = array,
                                                    !.unlocks = Reverse(array),
                                                    !.recharge_time = array]))
    /\ call' = [op |-> "seed", a |-> array, b |-> 0, ok |-> TRUE]
    /\ UNCHANGED <<db_workouts, now, appended, appVars>>

\* another writer of the database file changes one column of the first row
ForeignSkillEdit(column, text) ==
    /\ call.op = "start"
    /\ db_workouts = <<>>
    /\ db_skills' = [db_skills EXCEPT ![1] = [@ EXCEPT ![column] = text]]
    /\ call' = [op |-> "edit", a |-> column, b |-> 0, ok |-> TRUE]
    /\ UNCHANGED <<db_workouts, now, appended, appVars>>

\* another writer of the database file adds a row to the workouts table
ForeignWorkoutRow(value) ==
    /\ db_skills = setup_db(<<>>)
    /\ Len(db_workouts) < MaxRows
    /\ db_workouts' = Append(db_workouts, [timestamp |-> now, workout |-> value])
    /\ call' = [op |-> "insert", a |-> <<>>, b |-> 0, ok |-> TRUE]
    /\ UNCHANGED <<db_skills, now, appended, appVars>>

\* Skill::get_all_skills; b is the array seeded in the step before, if any
ReadSkills ==
    /\ call' = [op |-> "get_all_skills",
                a |-> IF get_all_skills_panics(db_skills) THEN <<>>
                      ELSE get_all_skills(db_skills),
                b |-> IF call.op = "seed" THEN call.a ELSE <<>>,
                ok |-> ~get_all_skills_panics(db_skills)]
    /\ UNCHANGED <<db_skills, db_workouts, now, appended, appVars>>

NextStored ==
    \/ \E array \in ArraySamples : SeedSkill(array)
    \/ \E text \in NumberTexts, column \in {"damage", "unlock", "recharge"} :
          ForeignSkillEdit(column, text)
    \/ \E text \in TagTexts : ForeignSkillEdit("hashtag", text)
    \/ \E text \in VariantTexts, column \in {"type", "hits"} : ForeignSkillEdit(column, text)
    \/ \E value \in StoredValues : ForeignWorkoutRow(value)
    \/ ReadSkills
    \/ LibGetWorkouts

SpecStored == InitLib /\ [][NextStored]_vars

(***************************************************************************)
(* Spec: the application.  One action per button or text field of the      *)
(* menu handlers.                                                          *)
(***************************************************************************)
T_1500 == <<"1", "5", "0", "0">>

\* a number that fits a usize and not an INTEGER column
T_huge == usize_to_string(I64Max + 1)

InputTexts == {T_empty, T_zero, T_abc, T_1500, T_huge}

SubMenus ==
    {"LogWorkout(false)", "ViewProgress", "ViewWorkouts", "ViewSkills", "SetReps(false)",
     "LanguageChoice"}

\* main_menu: the six buttons
MainMenuButton(target) ==
    /\ ~panicked
    /\ menu = "None"
    /\ menu' = target
    /\ UNCHANGED call
    /\ UNCHANGED langVars
    /\ UNCHANGED files
    /\ UNCHANGED <<dbVars, skills, input_reps, language, settings, panicked>>

\* a Back button that also clears the input buffer
Back_clears_input ==
    /\ ~panicked
    /\ menu # "None"
    /\ menu' = "None"
    /\ input_reps' = [i \in 1..Len(skills) |-> <<>>]
    /\ UNCHANGED call
    /\ UNCHANGED langVars
    /\ UNCHANGED files
    /\ UNCHANGED <<dbVars, skills, language, settings, panicked>>

\* the Back button of every sub-menu
Back ==
    /\ ~panicked
    /\ menu # "None"
    /\ menu' = "None"
    /\ UNCHANGED call
    /\ UNCHANGED langVars
    /\ UNCHANGED files
    /\ UNCHANGED <<dbVars, skills, input_reps, language, settings, panicked>>

\* ui.text_edit_singleline(&mut rfa.input_reps[i]) of log_workout and set_reps
EditReps(i, text) ==
    /\ ~panicked
    /\ menu \in {"LogWorkout(false)", "LogWorkout(true)", "SetReps(false)", "SetReps(true)"}
    /\ input_reps' = [input_reps EXCEPT ![i] = text]
    /\ UNCHANGED call
    /\ UNCHANGED langVars
    /\ UNCHANGED files
    /\ UNCHANGED <<dbVars, skills, menu, language, settings, panicked>>

\* the argument of update_reps with a text that is not a number counted as 1
reps_today_counts_one(text) ==
    IF text = <<>> THEN 0
    ELSE IF parse_usize(text).ok THEN parse_usize(text).val ELSE 1

\* the argument log_workout passes to update_reps
reps_today_of(text) == IF text = <<>> THEN 0 ELSE parse_unwrap_or_0(text)

\* the loop of log_workout with the results of update_reps collected and
\* looked at after the loop: a failure does not stop the later writes
update_all_keeps_going(tbl, skill_list, rep_list, i) ==
    LET Written(row) ==
            {j \in i..Len(skill_list) :
                /\ skill_list[j].name = row.name
                /\ to_sql_ok(reps_today_of(rep_list[j]))}
        Add(row) ==
            IF Written(row) = {} THEN row
            ELSE [row EXCEPT !.completed_reps =
                     @ + reps_today_of(rep_list[CHOOSE j \in Written(row) : TRUE])]
    IN  [ ok |-> \A j \in i..Len(skill_list) : to_sql_ok(reps_today_of(rep_list[j])),
          tbl |-> [r \in 1..Len(tbl) |-> Add(tbl[r])] ]

\* log_workout, Confirm: the loop of update_reps calls, each with
\* .expect(): the first failure panics and the later skills are not reached
RECURSIVE update_all(_, _, _, _)
update_all(tbl, skill_list, rep_list, i) ==
    IF i > Len(skill_list) THEN [ok |-> TRUE, tbl |-> tbl]
    ELSE LET r == update_reps(tbl, skill_list[i], reps_today_of(rep_list[i]))
         IN  IF r.ok THEN update_all(r.tbl, skill_list, rep_list, i + 1)
             ELSE [ok |-> FALSE, tbl |-> r.tbl]

\* the "Save Workout" button writing at once, with no confirmation window
LogWorkoutSave_writes ==
    /\ ~panicked
    /\ menu \in {"LogWorkout(false)", "LogWorkout(true)"}
    /\ Len(db_workouts) < MaxWorkouts
    /\ LET r == update_all(db_skills, skills, input_reps, 1)
       IN  /\ db_skills' = r.tbl
           /\ UNCHANGED call
           /\ UNCHANGED langVars
           /\ UNCHANGED files
           /\ IF r.ok
              THEN /\ db_workouts' = save_workout_to_db(db_workouts, now, skills, input_reps)
                   /\ appended' = Append(appended,
                                         [time |-> now, pairs |-> ExpectedPairs(skills, input_reps)])
                   /\ skills' = get_all_skills(r.tbl)
                   /\ input_reps' = empty_inputs(get_all_skills(r.tbl))
                   /\ menu' = "LogWorkout(false)"
                   /\ UNCHANGED <<now, language, settings, panicked>>
              ELSE /\ panicked' = TRUE
                   /\ UNCHANGED <<db_workouts, appended, now, skills, input_reps, menu,
                                  language, settings>>

\* log_workout: the "Save Workout" button
LogWorkoutSave ==
    /\ ~panicked
    /\ menu \in {"LogWorkout(false)", "LogWorkout(true)"}
    /\ menu' = "LogWorkout(true)"
    /\ UNCHANGED call
    /\ UNCHANGED langVars
    /\ UNCHANGED files
    /\ UNCHANGED <<dbVars, skills, input_reps, language, settings, panicked>>

\* the Confirm button of log_workout without the call of get_all_skills
\* that follows the append
LogWorkoutConfirm_no_reload ==
    /\ ~panicked
    /\ menu = "LogWorkout(true)"
    /\ Len(db_workouts) < MaxWorkouts
    /\ LET r == update_all(db_skills, skills, input_reps, 1)
       IN  /\ db_skills' = r.tbl
           /\ UNCHANGED call
           /\ UNCHANGED langVars
           /\ UNCHANGED files
           /\ IF r.ok
              THEN /\ db_workouts' = save_workout_to_db(db_workouts, now, skills, input_reps)
                   /\ appended' = Append(appended,
                                         [time |-> now, pairs |-> ExpectedPairs(skills, input_reps)])
                   /\ skills' = skills
                   /\ input_reps' = empty_inputs(skills)
                   /\ menu' = "LogWorkout(false)"
                   /\ UNCHANGED <<now, language, settings, panicked>>
              ELSE /\ panicked' = TRUE
                   /\ UNCHANGED <<db_workouts, appended, now, skills, input_reps, menu,
                                  language, settings>>

\* log_workout: the Confirm button of the confirmation window, while the
\* log holds fewer than `limit` rows
LogWorkoutConfirmWithin(limit) ==
    /\ ~panicked
    /\ menu = "LogWorkout(true)"
    /\ Len(db_workouts) < limit
    /\ LET r == update_all(db_skills, skills, input_reps, 1)
       IN  /\ db_skills' = r.tbl
           /\ UNCHANGED call
           /\ UNCHANGED langVars
           /\ UNCHANGED files
           /\ IF r.ok
              THEN /\ db_workouts' = save_workout_to_db(db_workouts, now, skills, input_reps)
                   /\ appended' = Append(appended,
                                         [time |-> now, pairs |-> ExpectedPairs(skills, input_reps)])
                   /\ skills' = get_all_skills(r.tbl)
                   /\ input_reps' = empty_inputs(get_all_skills(r.tbl))
                   /\ menu' = "LogWorkout(false)"
                   /\ UNCHANGED <<now, language, settings, panicked>>
              ELSE /\ panicked' = TRUE
                   /\ UNCHANGED <<db_workouts, appended, now, skills, input_reps, menu,
                                  language, settings>>

LogWorkoutConfirm == LogWorkoutConfirmWithin(MaxWorkouts)

\* log_workout: the Cancel button of the confirmation window
LogWorkoutCancel ==
    /\ ~panicked
    /\ menu = "LogWorkout(true)"
    /\ menu' = "LogWorkout(false)"
    /\ UNCHANGED call
    /\ UNCHANGED langVars
    /\ UNCHANGED files
    /\ UNCHANGED <<dbVars, skills, input_reps, language, settings, panicked>>

\* set_reps: the "Save reps" button
SetRepsSave ==
    /\ ~panicked
    /\ menu \in {"SetReps(false)", "SetReps(true)"}
    /\ menu' = "SetReps(true)"
    /\ UNCHANGED call
    /\ UNCHANGED langVars
    /\ UNCHANGED files
    /\ UNCHANGED <<dbVars, skills, input_reps, language, settings, panicked>>

\* the test of set_reps without `parse::<usize>().is_ok()`
is_set_nonempty(text) == text # <<>>

\* set_reps asks for a write only where the input is not empty and parses
is_set(text) == text # <<>> /\ parse_usize(text).ok

\* set_reps, Confirm: the loop of set_reps calls, each with .expect()
RECURSIVE set_all(_, _, _, _)
set_all(tbl, skill_list, rep_list, i) ==
    IF i > Len(skill_list) THEN [ok |-> TRUE, tbl |-> tbl]
    ELSE IF ~is_set(rep_list[i]) THEN set_all(tbl, skill_list, rep_list, i + 1)
    ELSE LET r == set_reps(tbl, skill_list[i], parse_unwrap_or_0(rep_list[i]))
         IN  IF r.ok THEN set_all(r.tbl, skill_list, rep_list, i + 1)
             ELSE [ok |-> FALSE, tbl |-> r.tbl]

\* the Confirm button of set_reps with rfa.input_reps.clear() in place of
\* the vec! of empty strings
SetRepsConfirm_clears_vec ==
    /\ ~panicked
    /\ menu = "SetReps(true)"
    /\ LET r == set_all(db_skills, skills, input_reps, 1)
       IN  /\ db_skills' = r.tbl
           /\ UNCHANGED call
           /\ UNCHANGED langVars
           /\ UNCHANGED files
           /\ IF r.ok
              THEN /\ skills' = get_all_skills(r.tbl)
                   /\ input_reps' = <<>>
                   /\ menu' = "SetReps(false)"
                   /\ UNCHANGED panicked
              ELSE /\ panicked' = TRUE
                   /\ UNCHANGED <<skills, input_reps, menu>>
           /\ UNCHANGED <<db_workouts, appended, now, language, settings>>

\* set_reps: the Confirm button of the confirmation window
SetRepsConfirm ==
    /\ ~panicked
    /\ menu = "SetReps(true)"
    /\ LET r == set_all(db_skills, skills, input_reps, 1)
       IN  /\ db_skills' = r.tbl
           /\ UNCHANGED call
           /\ UNCHANGED langVars
           /\ UNCHANGED files
           /\ IF r.ok
              THEN /\ skills' = get_all_skills(r.tbl)
                   /\ input_reps' = empty_inputs(get_all_skills(r.tbl))
                   /\ menu' = "SetReps(false)"
                   /\ UNCHANGED panicked
              ELSE /\ panicked' = TRUE
                   /\ UNCHANGED <<skills, input_reps, menu>>
           /\ UNCHANGED <<db_workouts, appended, now, language, settings>>

\* a Cancel button of set_reps that closes the screen
SetRepsCancel_to_main_menu ==
    /\ ~panicked
    /\ menu = "SetReps(true)"
    /\ menu' = "None"
    /\ UNCHANGED call
    /\ UNCHANGED langVars
    /\ UNCHANGED files
    /\ UNCHANGED <<dbVars, skills, input_reps, language, settings, panicked>>

\* set_reps: the Cancel button of the confirmation window
SetRepsCancel ==
    /\ ~panicked
    /\ menu = "SetReps(true)"
    /\ menu' = "SetReps(false)"
    /\ UNCHANGED call
    /\ UNCHANGED langVars
    /\ UNCHANGED files
    /\ UNCHANGED <<dbVars, skills, input_reps, language, settings, panicked>>

\* language_choice: an entry of the combo box, which calls switch_language
SelectLanguage(target_language) ==
    /\ ~panicked
    /\ menu = "LanguageChoice"
    /\ \E written \in BOOLEAN : switch_language(target_language, written)
    /\ UNCHANGED call
    /\ UNCHANGED <<dbVars, skills, input_reps, menu>>

Next ==
    \/ \E target \in SubMenus : MainMenuButton(target)
    \/ Back
    \/ \E i \in 1..Len(input_reps), text \in InputTexts : EditReps(i, text)
    \/ LogWorkoutSave
    \/ LogWorkoutConfirm
    \/ LogWorkoutCancel
    \/ SetRepsSave
    \/ SetRepsConfirm
    \/ SetRepsCancel
    \/ \E target_language \in Languages : SelectLanguage(target_language)

Spec == Init /\ [][Next]_vars

(***************************************************************************)
(* The claims about update_reps, set_reps and the percentages, under       *)
(* SpecSkills.                                                             *)
(***************************************************************************)
NamesOf(tbl) == {tbl[i].name : i \in 1..Len(tbl)}

\* C1: a successful update_reps(n, d) adds d to the completed count of the
\* row named n and changes no other row and no other column; with no row
\* named n it succeeds and changes nothing.  The call succeeds exactly when
\* d fits an INTEGER column, and a failed call changes nothing.
C1_UpdateRepsAddsToOneRow ==
    [][ call'.op = "update_reps" =>
          /\ call'.ok <=> call'.b <= I64Max
          /\ Len(db_skills') = Len(db_skills)
          /\ \A i \in 1..Len(db_skills) :
                IF call'.ok /\ db_skills[i].name = call'.a
                THEN db_skills'[i] =
                        [db_skills[i] EXCEPT !.completed_reps = db_skills[i].completed_reps + call'.b]
                ELSE db_skills'[i] = db_skills[i]
          /\ (call'.a \notin NamesOf(db_skills) => db_skills' = db_skills)
          /\ db_workouts' = db_workouts ]_vars

\* an increment by 1 or 2 has reached a row that another increment had
\* reached before, while the other row holds another count
C1_Witness ==
    /\ call.op = "update_reps" /\ call.ok /\ call.b > 0
    /\ \E i, j \in 1..Len(db_skills) :
          /\ db_skills[i].name = call.a
          /\ db_skills[i].completed_reps > call.b
          /\ db_skills[j].completed_reps \notin {0, db_skills[i].completed_reps}

\* C2: a successful set_reps(n, v) makes the completed count of the row
\* named n exactly v whatever it was, leaves every other row as it was, and
\* applied again changes nothing more.
C2_SetRepsOverwritesOneRow ==
    [][ (call'.op = "set_reps" /\ call'.ok) =>
          /\ Len(db_skills') = Len(db_skills)
          /\ \A i \in 1..Len(db_skills) :
                IF db_skills[i].name = call'.a
                THEN db_skills'[i] = [db_skills[i] EXCEPT !.completed_reps = call'.b]
                ELSE db_skills'[i] = db_skills[i]
          /\ set_reps(db_skills', [name |-> call'.a], call'.b).tbl = db_skills'
          /\ db_workouts' = db_workouts ]_vars

\* a count above the goal has been overwritten with 1 while the other row
\* keeps a count of its own
C2_Witness ==
    /\ call.op = "set_reps" /\ call.ok /\ call.b = 1
    /\ \E i, j \in 1..Len(db_skills) :
          /\ db_skills[i].name = call.a
          /\ db_skills[i].completed_reps = 1
          /\ db_skills[j].completed_reps = 2001

f64_gt_100(x) == x.kind = "inf" \/ (x.kind = "num" /\ x.num > 100 * x.den)

f64_min_100(x) == IF x.kind = "nan" \/ f64_gt_100(x) THEN F64(100, 1) ELSE x

\* C6: after any increments and sets, for every skill of the table (the
\* goals are not 0) the capped percent is min(100, uncapped percent), it is
\* never above 100, the uncapped percent is above 100 exactly when
\* completed > goal, and it is 100 * completed / goal wherever the count is
\* a value an f64 holds exactly.
C6_CappedPercentIsMinOf100 ==
    \A i \in 1..Len(db_skills) :
        LET s == get_all_skills(db_skills)[i]
            capped == get_rep_percent(s)
            uncapped == get_rep_percent_uncapped(s)
        IN  s.goal_reps # 0 =>
              /\ capped = f64_min_100(uncapped)
              /\ ~f64_gt_100(capped)
              /\ f64_gt_100(uncapped) <=> s.completed_reps > s.goal_reps
              /\ (as_f64(s.completed_reps) = s.completed_reps
                    => uncapped = F64(100 * s.completed_reps, s.goal_reps))

\* one skill is above its goal with a count an f64 rounds, the other is
\* below its goal with a count above 0
C6_Witness ==
    \E i, j \in 1..Len(db_skills) :
        /\ db_skills[i].completed_reps > db_skills[i].goal_reps
        /\ as_f64(db_skills[i].completed_reps) # db_skills[i].completed_reps
        /\ get_rep_percent(get_all_skills(db_skills)[i]) = F64(100, 1)
        /\ db_skills[j].completed_reps = 2
        /\ get_rep_percent(get_all_skills(db_skills)[j]) = F64(1, 10)

(***************************************************************************)
(* The claims about the workout log, under SpecLog.                        *)
(***************************************************************************)
\* C3: an append of a skill list and a text list stores, at the time given,
\* exactly the pairs (skill, parsed count) of the positions both lists have
\* whose text is not empty and parses to a count other than 0, in order;
\* the listing gives that entry back, newest first.
C3_AppendKeepsNonZeroPairs ==
    call.op = "save_workout_to_db" =>
        LET listed == get_workouts_from_db(db_workouts)
            last == db_workouts[Len(db_workouts)]
        IN  /\ Len(listed) = Len(db_workouts)
            /\ Len(listed) = Len(appended)
            /\ listed[1].time = last.timestamp
            /\ last.timestamp = appended[Len(appended)].time
            /\ from_value(last.workout).ok
            /\ listed[1].workout.skill = ExpectedPairs(call.a, call.b)

\* the append of ("abc", "12", "+7") against three skills has stored the
\* second and third skill, and an append with nothing to keep has stored an
\* entry without pairs
C3_Witness ==
    /\ call.op = "save_workout_to_db"
    /\ call.a = <<BoatPose, TestSkill, ChairPose>>
    /\ call.b = <<T_abc, T_12, T_plus7>>
    /\ Len(db_workouts) = 2
    /\ get_workouts_from_db(db_workouts)[1].workout.skill =
          <<[skill |-> TestSkill, reps |-> 12], [skill |-> ChairPose, reps |-> 7]>>
    /\ get_workouts_from_db(db_workouts)[2].workout.skill = <<>>

\* C4: after n appends the listing has n entries, and its entry i is the
\* append number n + 1 - i: the newest is first, the oldest last.
C4_ListingIsReverseInsertionOrder ==
    call.op = "get_workouts_from_db" =>
        LET n == Len(appended)
        IN  /\ Len(call.a) = n
            /\ \A i \in 1..n :
                  /\ call.a[i].time = appended[n + 1 - i].time
                  /\ call.a[i].workout.skill = appended[n + 1 - i].pairs

\* three appends of three different contents have been listed
C4_Witness ==
    /\ call.op = "get_workouts_from_db"
    /\ Len(call.a) = 3
    /\ Len(appended) = 3
    /\ appended[1].pairs # appended[2].pairs
    /\ appended[2].pairs # appended[3].pairs
    /\ appended[1].pairs # appended[3].pairs
    /\ appended[1].pairs # <<>>

\* C10: the workouts table only grows at its end: the table before a step is
\* a prefix of the table after it, times and pairs alike.
C10_WorkoutLogIsAppendOnly ==
    [][ /\ Len(db_workouts') >= Len(db_workouts)
        /\ SubSeq(db_workouts', 1, Len(db_workouts)) = db_workouts ]_vars

\* the table holds three rows, two of them written at the same time
C10_Witness ==
    /\ Len(db_workouts) = 3
    /\ db_workouts[1].timestamp = db_workouts[2].timestamp
    /\ db_workouts[1].workout # db_workouts[2].workout
    /\ db_workouts[3].timestamp > db_workouts[2].timestamp
    /\ call.op = "get_workouts_from_db"

(***************************************************************************)
(* The claims about the accessors of a Skill, under SpecPure.              *)
(***************************************************************************)
\* C5: for every goal and completed count a usize holds, the reps until the
\* goal are goal - completed when completed <= goal and 0 otherwise, never
\* negative and never above the goal.
C5_RepsUntilGoalOnEveryUsize ==
    call.op = "get_reps_until_goal" =>
        /\ call.ok
        /\ call.b = (IF call.a.completed_reps <= call.a.goal_reps
                     THEN call.a.goal_reps - call.a.completed_reps ELSE 0)
        /\ call.b >= 0
        /\ call.b <= call.a.goal_reps

\* C7: two Skill values are equal exactly when their names are equal,
\* whatever their other fields hold.
C7_SkillEqualityIsByName ==
    call.op = "eq" => (call.ok <=> call.a.name = call.b.name)

\* two skills of one name whose every other field differs compared equal
C7_Witness ==
    /\ call.op = "eq" /\ call.ok
    /\ call.a.skill_type # call.b.skill_type
    /\ call.a.hits # call.b.hits
    /\ call.a.damage # call.b.damage
    /\ call.a.goal_reps # call.b.goal_reps
    /\ call.a.completed_reps # call.b.completed_reps
    /\ call.a.unlocks # call.b.unlocks
    /\ call.a.hashtags # call.b.hashtags
    /\ call.a.recharge_time # call.b.recharge_time

(***************************************************************************)
(* The claims about the application, under Spec.                           *)
(***************************************************************************)
\* C8: a step lowers the completed count of a skill only when it is the
\* confirmation of the set-reps menu and the input of that skill is a
\* number, which the count then equals; the confirmation of the log-workout
\* menu lowers no count.
C8_CompletedOnlyDecreasesBySet ==
    [][ /\ Len(db_skills') = Len(db_skills)
        /\ \A i \in 1..Len(db_skills) :
              db_skills'[i].completed_reps < db_skills[i].completed_reps =>
                  /\ menu = "SetReps(true)"
                  /\ \E j \in 1..Len(skills) :
                        /\ skills[j].name = db_skills[i].name
                        /\ is_set(input_reps[j])
                        /\ parse_usize(input_reps[j]).val = db_skills'[i].completed_reps
        /\ menu = "LogWorkout(true)" =>
              \A i \in 1..Len(db_skills) :
                  db_skills'[i].completed_reps >= db_skills[i].completed_reps ]_vars

\* a workout of both skills has been confirmed on top of a set count, and
\* one of the two counts has been set back to 0 afterwards
C8_Witness ==
    /\ Len(db_workouts) = 1
    /\ Len(from_value(db_workouts[1].workout).val.skill) = 2
    /\ \E i, j \in 1..Len(db_skills) :
          /\ db_skills[i].completed_reps = 3000
          /\ db_skills[j].completed_reps = 0

SeededRows == setup_db(<<>>)

\* C9: in every state the skills table holds the seeded rows, in the seeded
\* order, with the seeded name, goal and other columns and only the
\* completed count free; no goal is 0; the skills the application holds in
\* memory have those names and goals too.
C9_NamesAndGoalsAreConstant ==
    LET seeded == SeededRows
    IN  /\ Len(db_skills) = Len(seeded)
        /\ \A i \in 1..Len(seeded) :
              /\ db_skills[i] =
                    [seeded[i] EXCEPT !.completed_reps = db_skills[i].completed_reps]
              /\ db_skills[i].goal_reps # 0
        /\ Len(skills) = Len(seeded)
        /\ \A i \in 1..Len(seeded) :
              /\ skills[i].name = seeded[i].name
              /\ skills[i].goal_reps = seeded[i].goal_reps

\* a count has been set, a workout has been confirmed on top of it, the
\* language has been switched and a later set has failed
C9_Witness ==
    /\ Len(db_workouts) = 1
    /\ language = "Languages::German"
    /\ panicked
    /\ \E i, j \in 1..Len(db_skills) :
          /\ db_skills[i].completed_reps = 3000
          /\ db_skills[j].completed_reps = 1500

\* texts that stand for no repetition: empty, zero, not a number
NonCounting == {T_empty, T_zero, T_abc}

\* C11: every append adds exactly one row to the workouts table; when every
\* text of the list is empty, "0" or not a number the row is still added and
\* records an empty pair list.
C11_AppendAlwaysAddsOneRow ==
    [][ appended' # appended =>
          /\ call'.op = "save_workout_to_db"
          /\ Len(db_workouts') = Len(db_workouts) + 1
          /\ SubSeq(db_workouts', 1, Len(db_workouts)) = db_workouts
          /\ (\A i \in 1..Len(call'.b) : call'.b[i] \in NonCounting) =>
                /\ db_workouts'[Len(db_workouts')].workout = [skill |-> <<>>]
                /\ from_value(db_workouts'[Len(db_workouts')].workout) =
                      [ok |-> TRUE, val |-> [skill |-> <<>>]] ]_vars

\* an append of ("0", "") and an append of ("12", "0", "abc") have each added
\* a row, the first without pairs
C11_Witness ==
    /\ call.op = "save_workout_to_db"
    /\ call.b = <<T_12, T_zero, T_abc>>
    /\ Len(db_workouts) = 2
    /\ db_workouts[1].workout = [skill |-> <<>>]
    /\ db_workouts[2].workout # [skill |-> <<>>]

\* the step is the Confirm of the log-workout menu
IsLogWorkoutConfirm == menu = "LogWorkout(true)" /\ (appended' # appended \/ panicked')

\* the first skill whose write fails, or one past the last skill
FirstFailing(rep_list) ==
    LET failing == {i \in 1..Len(rep_list) : reps_today_of(rep_list[i]) > I64Max}
    IN  IF failing = {} THEN Len(rep_list) + 1
        ELSE CHOOSE k \in failing : \A i \in failing : k <= i

\* C12: a confirmed workout writes the increments one skill after the other
\* in the order of the catalog and then appends the row.  When the write of
\* skill k fails, the increments of the skills before k stay, those of k and
\* of the later skills are not made, and no row is appended.
C12_NoRollbackOfEarlierIncrements ==
    [][ IsLogWorkoutConfirm =>
          LET k == FirstFailing(input_reps)
          IN  /\ Len(db_skills') = Len(db_skills)
              /\ \A i \in 1..Len(skills) :
                    /\ db_skills[i].name = skills[i].name
                    /\ db_skills'[i].completed_reps =
                          db_skills[i].completed_reps +
                             (IF i < k THEN reps_today_of(input_reps[i]) ELSE 0)
              /\ IF k <= Len(skills)
                 THEN panicked' /\ db_workouts' = db_workouts
                 ELSE ~panicked' /\ Len(db_workouts') = Len(db_workouts) + 1 ]_vars

\* the write of the second skill has failed: the first skill keeps its 1500,
\* the second has none, there is no row, and the catalog in memory is the
\* one read before
C12_Witness ==
    /\ panicked
    /\ menu = "LogWorkout(true)"
    /\ input_reps = <<T_1500, T_huge>>
    /\ db_skills[1].completed_reps = 1500
    /\ db_skills[2].completed_reps = 0
    /\ skills[1].completed_reps = 0
    /\ db_workouts = <<>>

\* C13: while the application runs (at startup and after every step, a
\* completed Confirm of either menu included) the catalog it holds in memory
\* is the skills table, skill by skill, completed counts included.
C13_CatalogInMemoryIsTheTable ==
    ~panicked =>
        /\ skills = get_all_skills(db_skills)
        /\ Len(skills) = Len(db_skills)
        /\ Len(input_reps) = Len(skills)
        /\ \A i \in 1..Len(db_skills) :
              /\ skills[i].name = db_skills[i].name
              /\ skills[i].goal_reps = db_skills[i].goal_reps
              /\ skills[i].completed_reps = db_skills[i].completed_reps

\* a set to 1500 and a workout of 1500 on top have both been confirmed and
\* the catalog in memory shows the 3000
C13_Witness ==
    /\ ~panicked
    /\ menu = "LogWorkout(false)"
    /\ Len(db_workouts) = 1
    /\ skills[1].completed_reps = 3000
    /\ skills[2].completed_reps = 1500
    /\ db_skills[1].completed_reps = 3000

\* the text is empty or is no number a usize holds
NonNumeric(text) == text = <<>> \/ ~parse_usize(text).ok

PairNames(pairs) == {pairs[i].skill.name : i \in 1..Len(pairs)}

\* C14: in the Confirm of the log-workout menu a skill whose input is empty
\* or not a number keeps its completed count and gets no pair in the row; the
\* Confirm fails only on an input that is a number, so with such inputs
\* alone it completes and appends its row.
C14_NonNumericInputCountsNothing ==
    [][ IsLogWorkoutConfirm =>
          /\ \A i \in 1..Len(skills) :
                NonNumeric(input_reps[i]) =>
                    /\ db_skills'[i].name = skills[i].name
                    /\ db_skills'[i].completed_reps = db_skills[i].completed_reps
                    /\ appended' # appended =>
                          skills[i].name \notin
                             PairNames(from_value(db_workouts'[Len(db_workouts')].workout).val.skill)
          /\ panicked' =>
                \E k \in 1..Len(skills) :
                    /\ ~NonNumeric(input_reps[k])
                    /\ parse_usize(input_reps[k]).val > I64Max
          /\ (\A i \in 1..Len(skills) : NonNumeric(input_reps[i])) =>
                /\ ~panicked'
                /\ Len(db_workouts') = Len(db_workouts) + 1
                /\ menu' = "LogWorkout(false)" ]_vars

\* a workout has been confirmed in which the input of the first skill
\* counted nothing and that of the second was 1500
C14_Witness ==
    /\ ~panicked
    /\ menu = "LogWorkout(false)"
    /\ Len(db_workouts) = 1
    /\ PairNames(from_value(db_workouts[1].workout).val.skill) = {skills[2].name}
    /\ db_skills[1].completed_reps = 0
    /\ db_skills[2].completed_reps = 1500

(***************************************************************************)
(* The claims about stored text and stored values, under SpecStored.       *)
(***************************************************************************)
\* C15: an array of four usize values, zeros and the largest value included,
\* written as setup_db writes it (each element in decimal followed by a
\* comma) and read as get_all_skills reads it, is the same array.
C15_NumericArrayRoundTrip ==
    (call.op = "get_all_skills" /\ call.b # <<>>) =>
        /\ call.ok
        /\ Len(call.a) = Len(db_skills)
        /\ LET s == call.a[Len(call.a)]
           IN  /\ s.name = TestSkill.name
               /\ s.damage = call.b
               /\ s.unlocks = Reverse(call.b)
               /\ s.recharge_time = call.b
        /\ decode_usize_array(encode_usize_array(call.b)) = call.b

\* the array (largest value, 0, 286, 7) has been seeded and read back
C15_Witness ==
    /\ call.op = "get_all_skills"
    /\ call.b = <<UsizeMax, 0, 286, 7>>
    /\ call.ok
    /\ call.a[3].damage = <<UsizeMax, 0, 286, 7>>
    /\ db_skills[3].damage = usize_to_string(UsizeMax) \o <<",", "0", ",", "2", "8", "6", ",", "7", ",">>

\* what C16 says a numeric column reads as: token i, or 0
ExpectedNumbers(text) ==
    LET toks == split_nonempty(text, <<>>)
    IN  [i \in 1..4 |-> IF i <= Len(toks) /\ parse_usize(toks[i]).ok
                        THEN parse_usize(toks[i]).val ELSE 0]

\* what C16 says the hashtag column reads as: token i, or Empty
ExpectedTags(text) ==
    LET toks == split_nonempty(text, <<>>)
    IN  [i \in 1..3 |-> IF i <= Len(toks) /\ SkillHashtags_from_str(token_str(toks[i])).ok
                        THEN SkillHashtags_from_str(token_str(toks[i])).val
                        ELSE "SkillHashtags::Empty"]

\* C16: whatever text a numeric column or the hashtag column of a skill row
\* holds, get_all_skills completes, and gives four numbers (three tags) of
\* which number i is the value of the i-th non-empty token between commas,
\* or 0 (Empty) when that token does not parse or is not there.
C16_AnyStoredTextDecodes ==
    call.op = "get_all_skills" =>
        /\ call.ok
        /\ Len(call.a) = Len(db_skills)
        /\ \A i \in 1..Len(db_skills) :
              /\ call.a[i].damage = ExpectedNumbers(db_skills[i].damage)
              /\ call.a[i].unlocks = ExpectedNumbers(db_skills[i].unlock)
              /\ call.a[i].recharge_time = ExpectedNumbers(db_skills[i].recharge)
              /\ call.a[i].hashtags = ExpectedTags(db_skills[i].hashtag)

\* stored values that are no Workout
BadValues == {V_bad_type, V_bad_tags}

\* C17: when a row of the workouts table holds a value that does not
\* deserialize to a Workout, get_workouts_from_db panics; it gives a list
\* only when every row deserializes, and then one entry per row.
C17_BadWorkoutRowIsFatal ==
    call.op = "get_workouts_from_db" =>
        /\ (\E i \in 1..Len(db_workouts) : db_workouts[i].workout \in BadValues) => ~call.ok
        /\ (\A i \in 1..Len(db_workouts) : db_workouts[i].workout \notin BadValues) => call.ok
        /\ call.ok => Len(call.a) = Len(db_workouts)
        /\ ~call.ok => call.a = <<>>

\* the listing of a table with a bad row between two good ones has panicked
C17_Witness ==
    /\ call.op = "get_workouts_from_db"
    /\ ~call.ok
    /\ Len(db_workouts) = 3
    /\ db_workouts[1].workout = V_boat
    /\ db_workouts[2].workout = V_bad_tags
    /\ db_workouts[3].workout = V_none


(***************************************************************************)
(* The localization functions called on their own, over translations       *)
(* tables as a database file can hold them.                                *)
(***************************************************************************)
\* the seeded table without the row of one key
without_key(key) ==
    [exists |-> TRUE,
     rows |-> SelectSeq(setup_translations.rows, LAMBDA r : r.key # key)]

\* translations tables: as seeded; seeded before an entry was added to the
\* bundle (the rows are inserted only when the file is created); emptied;
\* and a file without the table, where prepare fails
TranslationTables ==
    { setup_translations, without_key(K_chair_pose), without_key(<<"hashtag_core">>),
      [exists |-> TRUE, rows |-> <<>>], [exists |-> FALSE, rows |-> <<>>] }

\* skills to translate: seeded ones, one with other fields under a seeded
\* name, and names with '&' and '-'
LangSkillSamples ==
    { ChairPose, BoatPose, TestSkill,
      [BoatPose EXCEPT !.name = "Chair Pose", !.completed_reps = 1],
      [ChairPose EXCEPT !.name = "Open & Close Leg Raise"],
      [ChairPose EXCEPT !.name = "Knee-to-Chest"] }

InitLang ==
    /\ db_skills = setup_db(<<>>)
    /\ db_workouts = <<>>
    /\ now = 0
    /\ skills = get_all_skills(db_skills)
    /\ input_reps = empty_inputs(skills)
    /\ menu = "None"
    /\ language \in Languages
    /\ settings = [language |-> language]
    /\ panicked = FALSE
    /\ db_translations \in TranslationTables
    /\ skill_names = get_language_hashmaps(db_skills, db_translations, language).skill_names
    /\ hashtag_names = get_language_hashmaps(db_skills, db_translations, language).hashtag_names
    /\ menu_names = get_language_hashmaps(db_skills, db_translations, language).menu_names
    /\ files = [settings |-> TRUE, db |-> TRUE]
    /\ call = NoCall
    /\ appended = <<>>

LibSkillName(self, lang) ==
    /\ call' = [op |-> "Skill::get_translated_name",
                a |-> [self |-> self, language |-> lang, key |-> skill_key(self)],
                b |-> Skill_get_translated_name(db_translations, self, lang),
                ok |-> TRUE]
    /\ UNCHANGED <<dbVars, appVars>>

LibHashtagName(self, lang) ==
    /\ call' = [op |-> "SkillHashtags::get_translated_name",
                a |-> [self |-> self, language |-> lang, key |-> hashtag_key(self)],
                b |-> SkillHashtags_get_translated_name(db_translations, self, lang),
                ok |-> TRUE]
    /\ UNCHANGED <<dbVars, appVars>>

LibSwitchLanguage(target_language, written) ==
    /\ ~panicked
    /\ switch_language(target_language, written)
    /\ call' = [op |-> "switch_language", a |-> target_language, b |-> written, ok |-> written]
    /\ UNCHANGED <<dbVars, skills, input_reps, menu>>

NextLang ==
    \/ \E self \in LangSkillSamples, lang \in Languages : LibSkillName(self, lang)
    \/ \E self \in SkillHashtags, lang \in Languages : LibHashtagName(self, lang)
    \/ \E target_language \in Languages, written \in BOOLEAN :
          LibSwitchLanguage(target_language, written)

SpecLang == InitLang /\ [][NextLang]_vars

\* the rows of the translations table under the key of the last lookup
RowsOfKey == {i \in 1..Len(db_translations.rows) : db_translations.rows[i].key = call.a.key}

\* C18: resolving the translated name of a skill or of a tag never fails: it
\* returns the string stored under the derived key in the column of the
\* requested language, and "Invalid" when the key has no row or the table
\* cannot be read.
C18_TranslatedNameOrInvalid ==
    call.op \in {"Skill::get_translated_name", "SkillHashtags::get_translated_name"} =>
        /\ call.ok
        /\ IF db_translations.exists /\ RowsOfKey # {}
           THEN \E i \in RowsOfKey :
                   call.b = IF call.a.language = "Languages::English"
                            THEN db_translations.rows[i].en
                            ELSE db_translations.rows[i].de
           ELSE call.b = <<"Invalid">>

C18_Witness ==
    /\ call.op = "Skill::get_translated_name"
    /\ call.a.self.name = "Chair Pose"
    /\ db_translations = without_key(K_chair_pose)
    /\ call.b = <<"Invalid">>

\* the key the rule gives each name, written out
ExpectedKey(name) ==
    CASE name = "Chair Pose" -> <<"s", "k", "i", "l", "l", "_", "c", "h", "a", "i", "r", "_", "p", "o", "s", "e">>
      [] name = "Boat Pose" -> <<"s", "k", "i", "l", "l", "_", "b", "o", "a", "t", "_", "p", "o", "s", "e">>
      [] name = "Test Skill" -> <<"s", "k", "i", "l", "l", "_", "t", "e", "s", "t", "_", "s", "k", "i", "l", "l">>
      [] name = "Open & Close Leg Raise" ->
           <<"s", "k", "i", "l", "l", "_", "o", "p", "e", "n", "_", "a", "n", "d", "_", "c", "l", "o", "s", "e", "_", "l", "e", "g", "_", "r", "a", "i", "s", "e">>
      [] name = "Knee-to-Chest" -> <<"s", "k", "i", "l", "l", "_", "k", "n", "e", "e", "-", "t", "o", "-", "c", "h", "e", "s", "t">>

\* C20: the lookup key of a skill is "skill_" followed by its name with
\* ASCII letters lowercased, every space replaced by "_" and every '&' by
\* "and"; it depends on the name alone.
C20_SkillKeyFromName ==
    call.op = "Skill::get_translated_name" =>
        call.a.key = ExpectedKey(call.a.self.name)

C20_Witness ==
    /\ call.op = "Skill::get_translated_name"
    /\ call.a.self.name = "Open & Close Leg Raise"
    /\ call.a.key = K_open_and_close

\* C19: the active language is the one in the settings file, the one all
\* three hashmaps were built for, and the one selected last; every switch
\* rebuilds the three hashmaps.
C19_LanguageSettingsAndCachesAgree ==
    ~panicked =>
        /\ language = settings.language
        /\ skill_names = get_language_hashmaps(db_skills, db_translations, language).skill_names
        /\ hashtag_names = get_language_hashmaps(db_skills, db_translations, language).hashtag_names
        /\ menu_names = get_language_hashmaps(db_skills, db_translations, language).menu_names
        /\ call.op = "switch_language" => language = call.a

C19_Witness ==
    /\ call.op = "switch_language"
    /\ ~panicked
    /\ language = "Languages::German"
    /\ settings.language = "Languages::German"
    /\ db_translations = setup_translations
    /\ HashMap_get(skill_names, ChairPose) = [ok |-> TRUE, val |-> <<"de:">> \o K_chair_pose]
    /\ hashtag_names["SkillHashtags::Core"] = <<"de:", "hashtag_core">>
    /\ menu_names[<<"back">>] = <<"de:", "back">>


(***************************************************************************)
(* SpecBoot: first_time_setup and setup_db run again over the files a      *)
(* previous run of the program left, or that were removed since.           *)
(***************************************************************************)
\* setup_db, the translations table: CREATE TABLE IF NOT EXISTS and one
\* INSERT OR IGNORE per bundled entry
setup_db_translations(tbl) ==
    [exists |-> TRUE, rows |-> insert_translations(tbl.rows, get_all_translations)]

\* setup_db: Connection::open creates the file when there is none; the
\* workouts table is created if missing and never written
SetupDb ==
    /\ db_translations' = setup_db_translations(db_translations)
    /\ db_skills' = setup_db(db_skills)
    /\ files' = [files EXCEPT !.db = TRUE]
    /\ call' = [op |-> "setup_db", a |-> files, b |-> 0, ok |-> TRUE]
    /\ UNCHANGED <<db_workouts, now, appended, skills, input_reps, menu, language, settings,
                   panicked, skill_names, hashtag_names, menu_names>>

\* first_time_setup: each of the two files is created only when File::open
\* fails on it
FirstTimeSetup ==
    /\ IF files.settings THEN UNCHANGED settings
       ELSE settings' = [language |-> "Languages::English"]
    /\ IF files.db THEN UNCHANGED <<db_translations, db_skills>>
       ELSE /\ db_translations' = setup_db_translations(db_translations)
            /\ db_skills' = setup_db(db_skills)
    /\ files' = [settings |-> TRUE, db |-> TRUE]
    /\ call' = [op |-> "first_time_setup", a |-> files, b |-> 0, ok |-> TRUE]
    /\ UNCHANGED <<db_workouts, now, appended, skills, input_reps, menu, language,
                   panicked, skill_names, hashtag_names, menu_names>>

\* settings.json is removed between two runs of the program; the variable
\* settings is not read while the file is absent
RemoveSettingsFile ==
    /\ files.settings
    /\ files' = [files EXCEPT !.settings = FALSE]
    /\ call' = [op |-> "remove settings.json", a |-> files, b |-> 0, ok |-> TRUE]
    /\ UNCHANGED <<dbVars, skills, input_reps, menu, language, settings, panicked, langVars>>

\* database.db is removed between two runs of the program
RemoveDatabaseFile ==
    /\ files.db
    /\ files' = [files EXCEPT !.db = FALSE]
    /\ db_skills' = <<>>
    /\ db_workouts' = <<>>
    /\ db_translations' = [exists |-> FALSE, rows |-> <<>>]
    /\ appended' = <<>>
    /\ call' = [op |-> "remove database.db", a |-> files, b |-> 0, ok |-> TRUE]
    /\ UNCHANGED <<now, skills, input_reps, menu, language, settings, panicked,
                   skill_names, hashtag_names, menu_names>>

\* what a run of the program leaves in the files: completed counts, a row of
\* the workout log, the saved language
NextBoot ==
    \/ FirstTimeSetup
    \/ SetupDb
    \/ RemoveSettingsFile
    \/ RemoveDatabaseFile
    \/ /\ files.db
       /\ \E i \in 1..Len(db_skills), total_reps \in {0, 2001} :
             LibSetReps(get_all_skills(db_skills)[i], total_reps)
    \/ /\ files.db
       /\ Len(db_workouts) < MaxWorkouts
       /\ LibSaveWorkout(get_all_skills(db_skills), <<T_12, T_zero>>)
    \/ /\ files.db
       /\ \E target_language \in Languages : LibSwitchLanguage(target_language, TRUE)

SpecBoot == InitLib /\ [][NextBoot]_vars

\* every default skill has its row
Seeded ==
    \A i \in 1..Len(all_skills_default) : all_skills_default[i].name \in NamesOf(db_skills)

\* C21: first_time_setup run while settings.json and database.db both exist
\* changes neither file: the saved language, the completed counts and the
\* workout log stay.  setup_db run again on a seeded database adds no row
\* and resets no completed count.
C21_BootstrapIsIdempotent ==
    [][ /\ (call'.op = "first_time_setup" /\ files.settings /\ files.db) =>
              /\ settings' = settings
              /\ db_skills' = db_skills
              /\ db_workouts' = db_workouts
              /\ db_translations' = db_translations
              /\ files' = files
        /\ (call'.op = "setup_db" /\ files.db /\ Seeded) =>
              /\ db_skills' = db_skills
              /\ db_workouts' = db_workouts
              /\ db_translations' = db_translations ]_vars

\* setup_db has run on a database that holds a count of 2001 and a workout,
\* beside a settings file that names German
C21_Witness ==
    /\ call.op = "setup_db"
    /\ call.a = [settings |-> TRUE, db |-> TRUE]
    /\ \E i \in 1..Len(db_skills) : db_skills[i].completed_reps = 2001
    /\ db_workouts # <<>>
    /\ settings.language = "Languages::German"


(***************************************************************************)
(* SpecConv: the string conversions of the four enums, each applied to its *)
(* variants and to texts of any kind.                                      *)
(***************************************************************************)
EnumNames == {"SkillTypes", "SkillHits", "SkillHashtags", "Languages"}

\* the variants of an enum
variants_of(enum) ==
    CASE enum = "SkillTypes" -> SkillTypes
      [] enum = "SkillHits" -> SkillHits
      [] enum = "SkillHashtags" -> SkillHashtags
      [] enum = "Languages" -> Languages

\* to_string of the enum
to_string_of(enum, v) ==
    CASE enum = "SkillTypes" -> SkillTypes_to_string(v)
      [] enum = "SkillHits" -> SkillHits_to_string(v)
      [] enum = "SkillHashtags" -> SkillHashtags_to_string(v)
      [] enum = "Languages" -> Languages_to_string(v)

\* from_str of the enum
from_str_of(enum, s) ==
    CASE enum = "SkillTypes" -> SkillTypes_from_str(s)
      [] enum = "SkillHits" -> SkillHits_from_str(s)
      [] enum = "SkillHashtags" -> SkillHashtags_from_str(s)
      [] enum = "Languages" -> Languages_from_str(s)

\* texts to parse: every display string of every enum, the variant names
\* as Debug prints them, and texts that differ from a token by case, by a
\* space or by the "#"
ConvTexts ==
    UNION {{to_string_of(enum, v) : v \in variants_of(enum)} : enum \in EnumNames}
        \cup {SkillHashtags_debug(h) : h \in SkillHashtags}
        \cup {"", "#", "arms", "Arms ", " One", "heal", "#UpperArms", "#Upper  Arms", "#upper arms",
              "#LowerBody", "Lower Body", "German", "english", "Englisch", "Something else"}

\* v.to_string() parsed back
ConvRoundTrip(enum, v) ==
    /\ call' = [op |-> "to_string, from_str", a |-> [enum |-> enum, variant |-> v],
                b |-> from_str_of(enum, to_string_of(enum, v)), ok |-> TRUE]
    /\ UNCHANGED <<dbVars, appVars>>

\* from_str on a text
ConvParse(enum, s) ==
    /\ call' = [op |-> "from_str", a |-> [enum |-> enum, text |-> s],
                b |-> from_str_of(enum, s), ok |-> from_str_of(enum, s).ok]
    /\ UNCHANGED <<dbVars, appVars>>

NextConv ==
    \/ \E enum \in EnumNames : \E v \in variants_of(enum) : ConvRoundTrip(enum, v)
    \/ \E enum \in EnumNames, s \in ConvTexts : ConvParse(enum, s)

SpecConv == InitLib /\ [][NextConv]_vars

\* the tokens each from_str recognises, written out
Recognised(enum) ==
    CASE enum = "SkillTypes" -> {"Arms", "Core", "Legs", "Yoga"}
      [] enum = "SkillHits" -> {"One", "Three", "Five", "Heal"}
      [] enum = "SkillHashtags" ->
           {"", "#Empty", "#Chest", "#Upper Arms", "#Shoulders", "#Trapezius", "#Core",
            "#Posture", "#Legs", "#Glutes", "#Lower Body", "#Abs", "#Waist", "#Stamina",
            "#Back", "#Flexibility", "#Aerobic"}
      [] enum = "Languages" -> {"English", "Deutsch", "German"}

\* C22: for SkillHashtags, SkillTypes, SkillHits and Languages, from_str of
\* the display string of a variant is that variant, "#Upper Arms" and
\* "#Lower Body" included, and from_str of a text that is not one of the
\* recognised tokens is an error.
C22_DisplayStringsParseBack ==
    /\ call.op = "to_string, from_str" => call.b = [ok |-> TRUE, val |-> call.a.variant]
    /\ call.op = "from_str" => (call.b.ok <=> call.a.text \in Recognised(call.a.enum))

C22_Witness ==
    /\ call.op = "to_string, from_str"
    /\ call.a.variant = "SkillHashtags::UpperArms"
    /\ call.b.val = "SkillHashtags::UpperArms"


\* C23: a skill row whose type text is none of "Arms", "Core", "Legs",
\* "Yoga" is read as Yoga, and one whose hits text is none of "One",
\* "Three", "Five", "Heal" is read as Heal; get_all_skills succeeds on it.
C23_UnknownCategoryReadsAsLastVariant ==
    call.op = "get_all_skills" =>
        \A i \in 1..Len(db_skills) :
           /\ db_skills[i].type \notin {"Arms", "Core", "Legs", "Yoga"} =>
                 call.ok /\ call.a[i].skill_type = "SkillTypes::Yoga"
           /\ db_skills[i].hits \notin {"One", "Three", "Five", "Heal"} =>
                 call.ok /\ call.a[i].hits = "SkillHits::Heal"

C23_Witness ==
    /\ call.op = "get_all_skills"
    /\ call.ok
    /\ db_skills[1].type = "Cardio"
    /\ call.a[1].skill_type = "SkillTypes::Yoga"
    /\ call.a[1].name = db_skills[1].name


(***************************************************************************)
(* SpecWorkouts: the application used to log workouts only; the set-reps   *)
(* screen is never opened.                                                 *)
(***************************************************************************)
NextWorkouts ==
    \/ \E target \in {"LogWorkout(false)", "ViewWorkouts"} : MainMenuButton(target)
    \/ Back
    \/ \E i \in 1..Len(input_reps), text \in InputTexts : EditReps(i, text)
    \/ LogWorkoutSave
    \/ LogWorkoutConfirmWithin(MaxRows)
    \/ LogWorkoutCancel

SpecWorkouts == Init /\ [][NextWorkouts]_vars

\* the rep counts one stored workout value records for the skill `name`
RECURSIVE RepsInValue(_, _)
RepsInValue(pairs, name) ==
    IF pairs = <<>> THEN 0
    ELSE (IF Head(pairs)[1].name = name THEN Head(pairs)[2] ELSE 0)
         + RepsInValue(Tail(pairs), name)

\* the rep counts all rows of the workouts table record for the skill `name`
RECURSIVE LoggedReps(_, _)
LoggedReps(tbl, name) ==
    IF tbl = <<>> THEN 0
    ELSE RepsInValue(Head(tbl).workout.skill, name) + LoggedReps(Tail(tbl), name)

\* C24: from the seeded catalog, over confirmed workouts that succeeded and
\* with no set-reps confirmation, the stored completed count of every skill
\* is the sum of the rep counts the workout log records for it, 0 when it
\* records none.
C24_CompletedIsSumOfLoggedReps ==
    ~panicked =>
        \A i \in 1..Len(db_skills) :
           db_skills[i].completed_reps = LoggedReps(db_workouts, db_skills[i].name)

\* three workouts are logged, one skill is in two of them and the other in
\* one
C24_Witness ==
    /\ ~panicked
    /\ Len(db_workouts) = 3
    /\ \E i, j \in 1..Len(db_skills) :
          /\ db_skills[i].completed_reps = 3000
          /\ db_skills[j].completed_reps = 1500
    /\ \E r \in 1..3 : Len(db_workouts[r].workout.skill) = 2
    /\ \E r \in 1..3 : Len(db_workouts[r].workout.skill) = 0


\* the input buffer holds no text
AllEmpty(inputs) == \A i \in 1..Len(inputs) : inputs[i] = <<>>

\* C25: the skills table and the workouts table change only in a step taken
\* with a confirmation window open (LogWorkout(true) or SetReps(true)) that
\* is its Confirm: it ends on the screen below the window with the input
\* buffer cleared, or it panics.  Navigation, typing, Back, Cancel and the
\* views change neither table.
C25_TablesChangeOnlyOnConfirm ==
    [][ (db_skills' # db_skills \/ db_workouts' # db_workouts) =>
          /\ menu \in {"LogWorkout(true)", "SetReps(true)"}
          /\ \/ panicked'
             \/ /\ menu' = (IF menu = "LogWorkout(true)" THEN "LogWorkout(false)"
                            ELSE "SetReps(false)")
                /\ AllEmpty(input_reps')
          /\ menu = "SetReps(true)" => db_workouts' = db_workouts ]_vars

\* a workout has been confirmed, and the history view is open on it with
\* text typed since
C25_Witness ==
    /\ menu = "ViewWorkouts"
    /\ Len(db_workouts) = 1
    /\ \E i \in 1..Len(db_skills) : db_skills[i].completed_reps = 1500
    /\ ~AllEmpty(input_reps)


\* the number an input text of the model's alphabet denotes, for the texts
\* that are numbers
DenotedNumber(text) ==
    CASE text = <<"0">> -> 0
      [] text = <<"1", "5", "0", "0">> -> 1500

\* C26: a set-reps confirmation overwrites the completed count of exactly
\* the skills whose input is not empty and is a non-negative integer ("0"
\* sets the count to 0); the skills whose input is empty or is no number
\* keep their count; no row is appended to the workout log.  A confirmation
\* that panics has written no count of a skill with such an input either.
C26_SetRepsConfirmOverwritesNumericInputs ==
    [][ /\ menu = "SetReps(true)" =>
          /\ db_workouts' = db_workouts
          /\ \A i \in 1..Len(skills), r \in 1..Len(db_skills) :
                (db_skills[r].name = skills[i].name /\ NonNumeric(input_reps[i])) =>
                    db_skills'[r] = db_skills[r]
        /\ (menu = "SetReps(true)" /\ menu' = "SetReps(false)" /\ AllEmpty(input_reps')) =>
          /\ Len(db_skills') = Len(db_skills)
          /\ \A i \in 1..Len(skills) :
                \E r \in 1..Len(db_skills) :
                   /\ db_skills[r].name = skills[i].name
                   /\ db_skills'[r].completed_reps =
                         IF input_reps[i] \in {<<"0">>, <<"1", "5", "0", "0">>}
                         THEN DenotedNumber(input_reps[i])
                         ELSE db_skills[r].completed_reps
          /\ db_workouts' = db_workouts ]_vars

\* after a logged workout of 1500 for both skills, one count has been set
\* to 0 while the other kept its 1500, and the log still holds its one row
C26_Witness ==
    /\ menu = "SetReps(false)"
    /\ AllEmpty(input_reps)
    /\ Len(db_workouts) = 1
    /\ Len(db_workouts[1].workout.skill) = 2
    /\ db_skills[1].completed_reps = 0
    /\ db_skills[2].completed_reps = 1500


(***************************************************************************)
(* SpecTypeOnLog: the application with text typed on the log-workout       *)
(* screen only; every button of every screen is still there.               *)
(***************************************************************************)
TypedTexts == {T_empty, T_abc, T_1500}

NextTypeOnLog ==
    \/ \E target \in SubMenus : MainMenuButton(target)
    \/ Back
    \/ /\ menu \in {"LogWorkout(false)", "LogWorkout(true)"}
       /\ \E i \in 1..Len(input_reps), text \in TypedTexts : EditReps(i, text)
    \/ LogWorkoutSave
    \/ LogWorkoutConfirm
    \/ LogWorkoutCancel
    \/ SetRepsSave
    \/ SetRepsConfirm
    \/ SetRepsCancel
    \/ \E target_language \in Languages : SelectLanguage(target_language)

SpecTypeOnLog == Init /\ [][NextTypeOnLog]_vars

\* C27: log_workout and set_reps edit one and the same buffer, which only a
\* Confirm on either screen clears; Back, Cancel and every other button
\* leave it as it is, so text typed on one screen is there, and is what a
\* Confirm applies, when the other screen is opened afterwards.
C27_InputBufferSharedAndClearedOnConfirm ==
    [][ /\ Len(input_reps') = Len(input_reps)
        /\ input_reps' # input_reps =>
              \/ /\ menu \in {"LogWorkout(true)", "SetReps(true)"}
                 /\ menu' = (IF menu = "LogWorkout(true)" THEN "LogWorkout(false)"
                             ELSE "SetReps(false)")
                 /\ AllEmpty(input_reps')
              \/ /\ menu' = menu
                 /\ menu \in {"LogWorkout(false)", "LogWorkout(true)",
                              "SetReps(false)", "SetReps(true)"}
                 /\ \E i \in 1..Len(input_reps) :
                       \A j \in 1..Len(input_reps) : j # i => input_reps'[j] = input_reps[j]
        /\ (menu = "SetReps(true)" /\ menu' = "SetReps(false)" /\ AllEmpty(input_reps')) =>
              \A i \in 1..Len(skills) :
                 input_reps[i] = <<"1", "5", "0", "0">> =>
                    \E r \in 1..Len(db_skills') :
                       /\ db_skills'[r].name = skills[i].name
                       /\ db_skills'[r].completed_reps = 1500 ]_vars

\* with text typed on the log-workout screen only, a count of 1500 has been
\* set by the set-reps confirmation: no workout was logged
C27_Witness ==
    /\ menu = "SetReps(false)"
    /\ AllEmpty(input_reps)
    /\ db_workouts = <<>>
    /\ db_skills[1].completed_reps = 1500
    /\ db_skills[2].completed_reps = 0


\* C28: the input buffer has one entry for each skill of the in-memory
\* catalog, at the same index: every index of the catalog is an index of
\* the buffer, and the pairing by position of skills and inputs, which the
\* increment loop and the log append use, leaves no skill out.
C28_OneInputPerSkill ==
    /\ Len(input_reps) = Len(skills)
    /\ DOMAIN input_reps = DOMAIN skills
    /\ Min(Len(skills), Len(input_reps)) = Len(skills)
    /\ \A i \in 1..Len(skills) : skills[i].name = db_skills[i].name

\* both confirmations have run: a count was set and a workout logged on
\* it, and text has been typed since
C28_Witness ==
    /\ Len(input_reps) = 2
    /\ Len(skills) = 2
    /\ Len(db_workouts) = 1
    /\ skills[1].completed_reps = 3000
    /\ input_reps[2] = <<"abc">>


\* C29: every skill of the in-memory catalog is found in the skill-name
\* hashmap, whose keys hash and compare by name: also after its completed
\* count was changed by increments and sets and the hashmap, built before,
\* still holds the skill as it was read then.  The name found is the
\* translation to the active language.
C29_EverySkillHasAName ==
    \A i \in 1..Len(skills) :
       /\ HashMap_get(skill_names, skills[i]).ok
       /\ ~panicked =>
             HashMap_get(skill_names, skills[i]).val =
                 Skill_get_translated_name(db_translations, skills[i], language)

\* the hashmap was built when the count was 0, the count is 3000 after a
\* set and a workout, and the skill is still found
C29_Witness ==
    /\ skills[1].completed_reps = 3000
    /\ skills[1] \notin DOMAIN skill_names
    /\ [skills[1] EXCEPT !.completed_reps = 0] \in DOMAIN skill_names
    /\ HashMap_get(skill_names, skills[1]).ok
    /\ language = "Languages::German"


\* enum Menu: None is the main menu, the bool of LogWorkout and SetReps
\* tells whether the confirmation window is open
AllMenus == SubMenus \cup {"None", "LogWorkout(true)", "SetReps(true)"}

\* a screen with a confirmation window: <<X(false), X(true)>>
Dialogs ==
    {<<"LogWorkout(false)", "LogWorkout(true)">>, <<"SetReps(false)", "SetReps(true)">>}

\* the step changes nothing but the menu
OnlyMenuChanges ==
    UNCHANGED <<dbVars, skills, input_reps, language, settings, panicked, langVars, files>>

\* the step writes to a table
TablesChange == db_skills' # db_skills \/ db_workouts' # db_workouts

\* C30: the menu starts at the main menu and is always one of the nine
\* screens.  A step that changes it is one of: main menu to a sub-screen,
\* any screen to the main menu (Back), X(false) to X(true) (the save
\* button), all three changing nothing else, or X(true) to X(false).  Back
\* leads to the main menu.  Confirm and Cancel lead from X(true) to X(false)
\* of the same screen, unless a write of Confirm fails and the program stops
\* on X(true); a step from X(true) that writes to a table never leads
\* anywhere but X(false).
C30_MenuNavigation ==
    /\ menu = "None"
    /\ [](menu \in AllMenus)
    /\ [][ /\ menu' # menu =>
                \/ menu = "None" /\ menu' \in SubMenus /\ OnlyMenuChanges
                \/ menu # "None" /\ menu' = "None" /\ OnlyMenuChanges
                \/ \E d \in Dialogs : menu = d[1] /\ menu' = d[2] /\ OnlyMenuChanges
                \/ \E d \in Dialogs : menu = d[2] /\ menu' = d[1]
           /\ Back => menu' = "None"
           /\ (LogWorkoutSave \/ SetRepsSave) =>
                 \E d \in Dialogs : menu \in {d[1], d[2]} /\ menu' = d[2]
           /\ (LogWorkoutCancel \/ SetRepsCancel) =>
                 \E d \in Dialogs : menu = d[2] /\ menu' = d[1]
           /\ (LogWorkoutConfirm \/ SetRepsConfirm) =>
                 \E d \in Dialogs :
                    /\ menu = d[2]
                    /\ IF panicked' THEN menu' = d[2] ELSE menu' = d[1]
           /\ \A d \in Dialogs :
                 (menu = d[2] /\ TablesChange) =>
                     IF panicked' THEN menu' = d[2] ELSE menu' = d[1] ]_vars

\* a workout has been confirmed, then the counts have been set to 0 and
\* confirmed: the menu is back on SetReps(false)
C30_Witness ==
    /\ menu = "SetReps(false)"
    /\ ~panicked
    /\ Len(db_workouts) = 1
    /\ db_workouts[1].workout # [skill |-> <<>>]
    /\ \A i \in 1..Len(skills) : skills[i].completed_reps = 0
    /\ \A i \in 1..Len(input_reps) : input_reps[i] = <<>>

====
